---- MODULE Spec2Model ----
(***************************************************************************)
(* Real-time messaging gateway of eport-mentormind.                         *)
(*                                                                         *)
(* Server side (routes.ts, src/unnamed/part_001): the WebSocket handlers    *)
(* of wss.on('connection'), broadcastToAllClients / broadcastToRoom and     *)
(* the POST /api/rooms/:roomId/messages handler.  Every handler is an       *)
(* async function: it runs to its next await in one step, and the           *)
(* continuation after the await is a second step, so handlers of            *)
(* different frames (also of one connection) interleave at the awaits.      *)
(*                                                                         *)
(* Client side (ChatProvider, src/client/src/pages/Chat.tsx): the message   *)
(* list with its optimistic entries, sendMessage and the new_message        *)
(* reconciliation of ws.onmessage.                                          *)
(***************************************************************************)
EXTENDS Integers, Sequences, FiniteSets, TLC

\* ------------------------------------------------------------------ bounds
MaxConns == 2
MaxSockets == 3
MaxPending == 2
MaxPosts == 1
MaxSends == 2
MaxBad == 1
MaxFrames == 4
MaxDup == 1
MaxTime == 5000
MaxMounts == 1
MaxRuns == 2
MaxLoads == 1
MaxViewLoads == 2

\* --------------------------------------------------------------- universe
Users == {"A", "B"}
Rooms == {"R1", "R2"}
NoUser == "none"
NoRoom == "none"
NoMsg == 0
\* sockets of wss.clients; Connect accepts the first MaxConns of them
Conns == 1..MaxSockets

\* runs of the connection effect of ChatProvider (one closure each)
Gens == 1..MaxRuns

\* the writes that throw during one handler step: at most MaxBad connections
BadSets == {b \in SUBSET Conns : Cardinality(b) <= MaxBad}

\* room_members rows of the store: B is not a member of R2
RoomMembers == {<<"A", "R1">>, <<"B", "R1">>, <<"A", "R2">>}

\* access tokens a client may present; "bad" verifies for nobody
Tokens == {"tokA", "tokB", "bad"}

VARIABLES
    readyState,   \* per connection: "idle" (not yet accepted), "open", "closing", "closed"
    userId,       \* ws.userId
    roomId,       \* ws.roomId
    onlineUsers,  \* the module-level Set
    tasks,        \* handlers suspended at an await
    store,        \* rows of the messages table, in insert order
    last,         \* the handler step just taken and the send calls it made
    tagBy,        \* per connection: the connection whose join_room set its room tag (0: none)
    nframes,      \* frames the gateway has received so far
    nrecv,        \* message-creation requests the route has received so far
    now,          \* wall clock, ms
    activeRoom,   \* per tab: activeRoomRef.current
    messages,     \* per tab: the messages state of ChatProvider
    reqs,         \* sendMessage calls that have not returned
    wsIn,         \* per tab: frames written to its socket, not yet handled by ws.onmessage
    http,         \* HTTP responses on their way to the tabs
    ndup,         \* frames that have reached a handler a second time
    nsent,        \* message-creation requests made so far
    mounted,      \* the connection effect has run and has not been cleaned up
    shouldReconnect,        \* shouldReconnectRef.current
    ngen,         \* runs of the connection effect so far; the last one is the current closure
    isAuthenticated,        \* per run: the closure's isAuthenticated
    reconnectTimeout,       \* per run: delay of the pending timer it holds, 0 for none
    authenticationTimeout,  \* per run: delay of the pending timer it holds, 0 for none
    wsRef,        \* wsRef.current: the run whose socket it holds, 0 for null
    wsReady,      \* per run: readyState of the run's socket, "none" when it has none
    onopen,       \* runs whose ws.onopen is suspended at getSession
    wsOut,        \* per run: frames sent on the socket and not yet answered
    timers,       \* pending setTimeout callbacks that no variable holds
    joinTimeout,  \* join effect: delay of the pending timer it holds, 0 for none
    joinAttempts, \* joinAttempts of the join effect
    loads         \* rooms whose loadMessages call has not returned

\* the connection controller of a tab
kvars == <<mounted, shouldReconnect, ngen, isAuthenticated, reconnectTimeout,
           authenticationTimeout, wsRef, wsReady, onopen, wsOut, timers, joinTimeout,
           joinAttempts, loads>>

cvars == <<now, activeRoom, messages, reqs, wsIn, http, ndup, nsent, kvars>>

vars == <<readyState, userId, roomId, onlineUsers, tasks, store, last, tagBy, nframes, nrecv,
          now, activeRoom, messages, reqs, wsIn, http, ndup, nsent, kvars>>

\* ------------------------------------------------------------- store side
\* supabase.auth.getUser(token): the user of a valid token, else an error
GetUser(token) ==
    CASE token = "tokA" -> "A"
      [] token = "tokB" -> "B"
      [] OTHER -> NoUser

\* room_members lookup .eq('room_id', r).eq('user_id', u).single(): data or null
Membership(u, r) == <<u, r>> \in RoomMembers

\* ----------------------------------------------------------------- frames
Frame(type, u, r, m, success, info) ==
    [type |-> type, userId |-> u, roomId |-> r, msg |-> m, success |-> success, info |-> info]

AuthenticatedFrame(u) == Frame("authenticated", u, NoRoom, NoMsg, TRUE, "")
UserOnlineFrame(u) == Frame("user_online", u, NoRoom, NoMsg, TRUE, "")
UserOfflineFrame(u) == Frame("user_offline", u, NoRoom, NoMsg, TRUE, "")
JoinFailFrame(r, why) == Frame("room_joined", NoUser, r, NoMsg, FALSE, why)
JoinOkFrame(r) == Frame("room_joined", NoUser, r, NoMsg, TRUE, "")
\* isTyping travels in the info field
UserTypingFrame(u, r, isTyping) ==
    Frame("user_typing", u, r, NoMsg, TRUE, IF isTyping THEN "typing" ELSE "idle")
NewMessageFrame(m) == Frame("new_message", m.user_id, m.room_id, m.id, TRUE, "")
\* {...message, type: 'room_update'}: the same payload under another type
RoomUpdateFrame(f) == [f EXCEPT !.type = "room_update"]

\* ------------------------------------------------------------------ sends
\* wss.clients: accepted sockets that have not yet emitted 'close', in accept order
Clients == {c \in Conns : readyState[c] \in {"open", "closing"}}

ClientSeq == SelectSeq([i \in Conns |-> i], LAMBDA c : c \in Clients)

\* one ws.send call; bad is the set of connections whose write throws
SendRes(c, bad) ==
    IF c \in bad THEN "throw"
    ELSE IF readyState[c] = "open" THEN "ok" ELSE "dropped"

SendRec(c, f, bad) == [to |-> c, frame |-> f, res |-> SendRes(c, bad)]

Threw(sends) == \E i \in 1..Len(sends) : sends[i].res = "throw"

\* a forEach whose body sends without try/catch: it ends at the first throw
UpToThrow(sends) ==
    IF Threw(sends)
    THEN SubSeq(sends, 1, CHOOSE i \in 1..Len(sends) :
                              /\ sends[i].res = "throw"
                              /\ \A j \in 1..(i - 1) : sends[j].res # "throw")
    ELSE sends

SendEach(targets, f, bad) == [i \in 1..Len(targets) |-> SendRec(targets[i], f, bad)]

BroadcastToAllClients(f, bad) ==
    UpToThrow(SendEach(SelectSeq(ClientSeq, LAMBDA c : readyState[c] = "open"), f, bad))

SentCount(sends) == Cardinality({i \in 1..Len(sends) : sends[i].res = "ok"})

BroadcastFallback(f, bad) ==
    SendEach(SelectSeq(ClientSeq, LAMBDA c : readyState[c] = "open" /\ userId[c] # NoUser),
             RoomUpdateFrame(f), bad)

\* mutant: the room loop without its try/catch
BroadcastDirect_AbortOnThrow(r, f, bad) ==
    UpToThrow(SendEach(SelectSeq(ClientSeq, LAMBDA c : roomId[c] = r /\ readyState[c] = "open"),
                       f, bad))

BroadcastDirect(r, f, bad) ==
    SendEach(SelectSeq(ClientSeq, LAMBDA c : roomId[c] = r /\ readyState[c] = "open"), f, bad)

\* mutant: the fallback sent after every direct loop
BroadcastToRoom_AlwaysFallback(r, f, bad) ==
    BroadcastDirect(r, f, bad) \o BroadcastFallback(f, bad)

\* mutant: the fallback taken only when no connection is tagged with the room
BroadcastToRoom_FallbackOnEmptyRoom(r, f, bad) ==
    LET direct == BroadcastDirect(r, f, bad)
    IN  IF Len(direct) = 0
        THEN direct \o BroadcastFallback(f, bad)
        ELSE direct

BroadcastToRoom(r, f, bad) ==
    LET direct == BroadcastDirect(r, f, bad)
    IN  IF SentCount(direct) = 0
        THEN direct \o BroadcastFallback(f, bad)
        ELSE direct

\* ------------------------------------------------------------------ tasks
NoTask == [kind |-> "none", conn |-> 0, user |-> NoUser, room |-> NoRoom,
           token |-> "", msg |-> NoMsg, ord |-> 0, req |-> 0, content |-> "", seq |-> 0,
           late |-> FALSE]

NextOrd == Cardinality(tasks) + 1

\* the suspended handlers without t, their receive order kept
Without(t) ==
    {[u EXCEPT !.ord = IF u.ord > t.ord THEN u.ord - 1 ELSE u.ord] : u \in tasks \ {t}}

\* the suspended handlers after the join of t has tagged its connection: a join
\* of the same connection for another room that was received before t and is
\* still suspended has been overtaken (late)
Overtaken(t) ==
    {[u EXCEPT !.late = @ \/ (u.kind = "join" /\ u.conn = t.conn /\ u.ord < t.ord
                                 /\ u.room # t.room)] : u \in Without(t)}

\* what a step did: the handler, its connection, the user, room and message it
\* was about, and its send calls in order.  flag: for auth_ok and close_done,
\* whether another open connection was bound to the same user before the step.
\* prev: for auth_ok, the connection's userId before the step.
Event(op, c, u, r, m, flag, sends) ==
    [op |-> op, conn |-> c, user |-> u, room |-> r, msg |-> m, flag |-> flag,
     prev |-> IF op = "auth_ok" THEN userId[c] ELSE NoUser, sends |-> sends]

\* ws.close(code, reason): starts the closing handshake of an open socket
CloseSocket(rs, c) == [rs EXCEPT ![c] = IF @ = "open" THEN "closing" ELSE @]

\* the close code of a failed authentication
AuthFailedCode == 1008

\* the close frame of ws.close(code, reason); its msg field holds the code
CloseFrame(code, reason) == Frame("close", NoUser, NoRoom, code, FALSE, reason)

\* ws.close(1008, 'Authentication failed'): the close frame goes out if the
\* socket is open, and nothing happens if it is closing or closed already
CloseSend(c) ==
    IF readyState[c] = "open"
    THEN <<[to |-> c, frame |-> CloseFrame(AuthFailedCode, "Authentication failed"),
            res |-> "ok"]>>
    ELSE <<>>

\* ChatProvider before its first effect: the refs and no socket
ControllerIdle ==
    /\ mounted = FALSE
    /\ shouldReconnect = TRUE
    /\ ngen = 0
    /\ isAuthenticated = [g \in Gens |-> FALSE]
    /\ reconnectTimeout = [g \in Gens |-> 0]
    /\ authenticationTimeout = [g \in Gens |-> 0]
    /\ wsRef = 0
    /\ wsReady = [g \in Gens |-> "none"]
    /\ onopen = {}
    /\ wsOut = [g \in Gens |-> {}]
    /\ timers = {}
    /\ joinTimeout = 0
    /\ joinAttempts = 0
    /\ loads = {}

Init ==
    /\ readyState = [c \in Conns |-> "idle"]
    /\ userId = [c \in Conns |-> NoUser]
    /\ roomId = [c \in Conns |-> NoRoom]
    /\ onlineUsers = {}
    /\ tasks = {}
    /\ store = <<>>
    /\ last = Event("init", 0, NoUser, NoRoom, NoMsg, FALSE, <<>>)
    /\ tagBy = [c \in Conns |-> 0]
    /\ nframes = 0
    /\ nrecv = 0
    /\ now = 0
    /\ activeRoom = [t \in Conns |-> NoRoom]
    /\ messages = [t \in Conns |-> <<>>]
    /\ reqs = {}
    /\ wsIn = [t \in Conns |-> <<>>]
    /\ http = {}
    /\ ndup = 0
    /\ nsent = 0
    /\ ControllerIdle

\* wss.on('connection'): sockets are accepted one after the other
Connect(c) ==
    /\ c <= MaxConns
    /\ readyState[c] = "idle"
    /\ \A d \in Conns : d < c => readyState[d] # "idle"
    /\ readyState' = [readyState EXCEPT ![c] = "open"]
    /\ last' = Event("connect", c, NoUser, NoRoom, NoMsg, FALSE, <<>>)
    /\ UNCHANGED <<userId, roomId, onlineUsers, tasks, store, tagBy, nframes, nrecv>>

\* case 'auth', up to the await of supabase.auth.getUser
RecvAuth(c, token) ==
    /\ nframes < MaxFrames
    /\ nframes' = nframes + 1
    /\ readyState[c] \in {"open", "closing"}
    /\ Cardinality(tasks) < MaxPending
    /\ tasks' = tasks \cup {[NoTask EXCEPT !.kind = "auth", !.conn = c, !.token = token,
                                           !.ord = NextOrd]}
    /\ last' = Event("recv_auth", c, NoUser, NoRoom, NoMsg, FALSE, <<>>)
    /\ UNCHANGED <<readyState, userId, roomId, onlineUsers, store, tagBy, nrecv>>

\* mutant: a failed verification leaves the socket as it is
AuthDone_NoCloseOnFailure(t, storeOk, bad) ==
    LET c == t.conn
        u == IF storeOk THEN GetUser(t.token) ELSE NoUser
        ack == SendRec(c, AuthenticatedFrame(u), bad)
        bc == BroadcastToAllClients(UserOnlineFrame(u), bad)
        wasLive == \E d \in Conns : d # c /\ readyState[d] = "open" /\ userId[d] = u
    IN  /\ t \in tasks
        /\ t.kind = "auth"
        /\ tasks' = Without(t)
        /\ IF u = NoUser
           THEN /\ last' = Event("auth_fail", c, NoUser, NoRoom, NoMsg, FALSE, <<>>)
                /\ UNCHANGED <<readyState, userId, onlineUsers>>
           ELSE /\ userId' = [userId EXCEPT ![c] = u]
                /\ IF ack.res = "throw"
                   THEN /\ readyState' = CloseSocket(readyState, c)
                        /\ last' = Event("auth_ok", c, u, NoRoom, NoMsg, wasLive,
                                         <<ack>> \o CloseSend(c))
                        /\ UNCHANGED onlineUsers
                   ELSE /\ onlineUsers' = onlineUsers \cup {u}
                        /\ readyState' = IF Threw(bc) THEN CloseSocket(readyState, c)
                                         ELSE readyState
                        /\ last' = Event("auth_ok", c, u, NoRoom, NoMsg, wasLive,
                                         <<ack>> \o bc \o
                                             (IF Threw(bc) THEN CloseSend(c) ELSE <<>>))
        /\ UNCHANGED <<roomId, store, tagBy, nframes, nrecv>>

\* case 'auth', after the await; storeOk: the identity provider answered
AuthDone(t, storeOk, bad) ==
    LET c == t.conn
        u == IF storeOk THEN GetUser(t.token) ELSE NoUser
        ack == SendRec(c, AuthenticatedFrame(u), bad)
        bc == BroadcastToAllClients(UserOnlineFrame(u), bad)
        wasLive == \E d \in Conns : d # c /\ readyState[d] = "open" /\ userId[d] = u
    IN  /\ t \in tasks
        /\ t.kind = "auth"
        /\ tasks' = Without(t)
        /\ IF u = NoUser
           THEN /\ readyState' = CloseSocket(readyState, c)
                /\ last' = Event("auth_fail", c, NoUser, NoRoom, NoMsg, FALSE, CloseSend(c))
                /\ UNCHANGED <<userId, onlineUsers>>
           ELSE /\ userId' = [userId EXCEPT ![c] = u]
                /\ IF ack.res = "throw"
                   THEN /\ readyState' = CloseSocket(readyState, c)
                        /\ last' = Event("auth_ok", c, u, NoRoom, NoMsg, wasLive,
                                         <<ack>> \o CloseSend(c))
                        /\ UNCHANGED onlineUsers
                   ELSE /\ onlineUsers' = onlineUsers \cup {u}
                        /\ readyState' = IF Threw(bc) THEN CloseSocket(readyState, c)
                                         ELSE readyState
                        /\ last' = Event("auth_ok", c, u, NoRoom, NoMsg, wasLive,
                                         <<ack>> \o bc \o
                                             (IF Threw(bc) THEN CloseSend(c) ELSE <<>>))
        /\ UNCHANGED <<roomId, store, tagBy, nframes, nrecv>>

\* mutant: the userId guard missing, the socket tagged and told so
JoinUnauth_NoGuard(c, r, bad) ==
    /\ nframes < MaxFrames
    /\ nframes' = nframes + 1
    /\ readyState[c] \in {"open", "closing"}
    /\ userId[c] = NoUser
    /\ roomId' = [roomId EXCEPT ![c] = r]
    /\ last' = Event("join_ok", c, NoUser, r, NoMsg, FALSE, <<SendRec(c, JoinOkFrame(r), bad)>>)
    /\ UNCHANGED <<readyState, userId, onlineUsers, tasks, store, tagBy, nrecv>>

\* case 'join_room' on a socket with no userId: answered before any await
JoinUnauth(c, r, bad) ==
    /\ nframes < MaxFrames
    /\ nframes' = nframes + 1
    /\ readyState[c] \in {"open", "closing"}
    /\ userId[c] = NoUser
    /\ last' = Event("join_unauth", c, NoUser, r, NoMsg, FALSE,
                     <<SendRec(c, JoinFailFrame(r, "Authentication required"), bad)>>)
    /\ UNCHANGED <<readyState, userId, roomId, onlineUsers, tasks, store, tagBy, nrecv>>

\* case 'join_room', up to the await of the room_members lookup
RecvJoin(c, r) ==
    /\ nframes < MaxFrames
    /\ nframes' = nframes + 1
    /\ readyState[c] \in {"open", "closing"}
    /\ userId[c] # NoUser
    /\ Cardinality(tasks) < MaxPending
    /\ tasks' = tasks \cup {[NoTask EXCEPT !.kind = "join", !.conn = c, !.room = r,
                                           !.user = userId[c], !.ord = NextOrd]}
    /\ last' = Event("recv_join", c, userId[c], r, NoMsg, FALSE, <<>>)
    /\ UNCHANGED <<readyState, userId, roomId, onlineUsers, store, tagBy, nrecv>>

\* mutant: only the requesting socket is tagged
UserConnections_OnlySelf(c) == {d \in {c} : readyState[d] = "open"}

\* the connections the join tags: every open socket of ws.userId
UserConnections(c) == {d \in Clients : userId[d] = userId[c] /\ readyState[d] = "open"}

\* mutant: the membership row is not looked at
JoinDone_NoMembershipCheck(t, storeOk, bad) ==
    LET c == t.conn
        r == t.room
    IN  /\ t \in tasks
        /\ t.kind = "join"
        /\ tasks' = Without(t)
        /\ roomId' = [d \in Conns |-> IF d \in UserConnections(c) THEN r ELSE roomId[d]]
        /\ tagBy' = [d \in Conns |-> IF d \in UserConnections(c) THEN c ELSE tagBy[d]]
        /\ last' = Event("join_ok", c, t.user, r, NoMsg, FALSE,
                         <<SendRec(c, JoinOkFrame(r), bad)>>)
        /\ UNCHANGED <<readyState, userId, onlineUsers, store, nframes, nrecv>>

\* case 'join_room', after the await; storeOk: the lookup returned a row if there
\* is one.  flag of join_ok: a join received later on the connection, for
\* another room, tagged it before this one did.
JoinDone(t, storeOk, bad) ==
    LET c == t.conn
        r == t.room
        membership == storeOk /\ Membership(t.user, r)
    IN  /\ t \in tasks
        /\ t.kind = "join"
        /\ IF ~membership
           THEN /\ tasks' = Without(t)
                /\ last' = Event("join_denied", c, t.user, r, NoMsg, FALSE,
                                 <<SendRec(c, JoinFailFrame(r, "Not authorized for this room"), bad)>>)
                /\ UNCHANGED <<roomId, tagBy>>
           ELSE /\ tasks' = IF c \in UserConnections(c) THEN Overtaken(t) ELSE Without(t)
                /\ roomId' = [d \in Conns |-> IF d \in UserConnections(c) THEN r ELSE roomId[d]]
                /\ tagBy' = [d \in Conns |-> IF d \in UserConnections(c) THEN c ELSE tagBy[d]]
                /\ last' = Event("join_ok", c, t.user, r, NoMsg, t.late,
                                 <<SendRec(c, JoinOkFrame(r), bad)>>)
        /\ UNCHANGED <<readyState, userId, onlineUsers, store, nframes, nrecv>>

\* case 'join_room' when the awaited room_members lookup rejects: the
\* exception lands in the catch of ws.on('message'), which only logs
JoinThrow(t) ==
    /\ t \in tasks
    /\ t.kind = "join"
    /\ tasks' = Without(t)
    /\ last' = Event("join_error", t.conn, t.user, t.room, NoMsg, FALSE, <<>>)
    /\ UNCHANGED <<readyState, userId, roomId, onlineUsers, store, tagBy, nframes, nrecv>>

\* ws.on('close'), up to the await of the users update
SocketClose(c) ==
    /\ readyState[c] \in {"open", "closing"}
    /\ readyState' = [readyState EXCEPT ![c] = "closed"]
    /\ IF userId[c] # NoUser
       THEN /\ Cardinality(tasks) < MaxPending
            /\ tasks' = tasks \cup {[NoTask EXCEPT !.kind = "close", !.conn = c,
                                                   !.user = userId[c], !.ord = NextOrd]}
       ELSE UNCHANGED tasks
    /\ last' = Event("close", c, userId[c], NoRoom, NoMsg, FALSE, <<>>)
    /\ UNCHANGED <<userId, roomId, onlineUsers, store, tagBy, nframes, nrecv>>

\* ws.on('close'), after the await
CloseDone(t, bad) ==
    LET c == t.conn
        u == userId[c]
        stillLive == \E d \in Conns : d # c /\ readyState[d] = "open" /\ userId[d] = u
    IN  /\ t \in tasks
        /\ t.kind = "close"
        /\ tasks' = Without(t)
        /\ onlineUsers' = onlineUsers \ {u}
        /\ last' = Event("close_done", c, u, NoRoom, NoMsg, stillLive,
                         BroadcastToAllClients(UserOfflineFrame(u), bad))
        /\ UNCHANGED <<readyState, userId, roomId, store, tagBy, nframes, nrecv>>

\* POST /api/rooms/:roomId/messages, up to the insert
PostRecv(u, r, req, content) ==
    /\ Cardinality(tasks) < MaxPending
    /\ tasks' = tasks \cup {[NoTask EXCEPT !.kind = "post", !.user = u, !.room = r,
                                           !.req = req, !.content = content,
                                           !.seq = nrecv + 1, !.ord = NextOrd]}
    /\ nrecv' = nrecv + 1
    /\ last' = Event("post_recv", 0, u, r, NoMsg, FALSE, <<>>)
    /\ UNCHANGED <<readyState, userId, roomId, onlineUsers, store, tagBy, nframes>>

\* mutant: the insert's error is not looked at, the broadcast goes out all the same
PostInsert_BroadcastOnError(t, storeOk) ==
    LET m == [id |-> Len(store) + 1, room_id |-> t.room, user_id |-> t.user,
              content |-> t.content, created_at |-> now, seq |-> t.seq]
    IN  /\ t \in tasks
        /\ t.kind = "post"
        /\ IF ~(storeOk /\ Membership(t.user, t.room))
           THEN /\ tasks' = Without(t)
                /\ last' = Event("post_rejected", 0, t.user, t.room, NoMsg, FALSE,
                                 BroadcastToRoom(t.room,
                                     Frame("new_message", t.user, t.room, NoMsg, TRUE, ""), {}))
                /\ UNCHANGED store
           ELSE /\ store' = Append(store, m)
                /\ tasks' = (tasks \ {t}) \cup {[t EXCEPT !.kind = "stored", !.msg = m.id]}
                /\ last' = Event("post_insert", 0, t.user, t.room, m.id, FALSE, <<>>)
        /\ UNCHANGED <<readyState, userId, roomId, onlineUsers, tagBy, nframes, nrecv>>

\* the membership check and the insert into messages; storeOk: the store answered
PostInsert(t, storeOk) ==
    LET m == [id |-> Len(store) + 1, room_id |-> t.room, user_id |-> t.user,
              content |-> t.content, created_at |-> now, seq |-> t.seq]
    IN  /\ t \in tasks
        /\ t.kind = "post"
        /\ IF ~(storeOk /\ Membership(t.user, t.room))
           THEN /\ tasks' = Without(t)
                /\ last' = Event("post_rejected", 0, t.user, t.room, NoMsg, FALSE, <<>>)
                /\ UNCHANGED store
           ELSE /\ store' = Append(store, m)
                /\ tasks' = (tasks \ {t}) \cup {[t EXCEPT !.kind = "stored", !.msg = m.id]}
                /\ last' = Event("post_insert", 0, t.user, t.room, m.id, FALSE, <<>>)
        /\ UNCHANGED <<readyState, userId, roomId, onlineUsers, tagBy, nframes, nrecv>>

\* the handler's continuation after the insert: broadcastToRoom, then res.json
PostBroadcast(t, bad) ==
    /\ t \in tasks
    /\ t.kind = "stored"
    /\ tasks' = Without(t)
    /\ last' = Event("post_broadcast", 0, t.user, t.room, t.msg, FALSE,
                     BroadcastToRoom(t.room, NewMessageFrame(store[t.msg]), bad))
    /\ UNCHANGED <<readyState, userId, roomId, onlineUsers, store, tagBy, nframes, nrecv>>

\* the route takes a further request while fewer than MaxPosts have come in
PostBudget == nrecv < MaxPosts

\* no ws handler is suspended at an await
SessionQuiet == \A t \in tasks : t.kind \in {"post", "stored"}

\* the gateway's WebSocket side: every interleaving of the frame and close handlers
Next ==
    \/ \E c \in Conns : Connect(c) /\ UNCHANGED cvars
    \/ \E c \in Conns, token \in Tokens : RecvAuth(c, token) /\ UNCHANGED cvars
    \/ \E t \in tasks, storeOk \in BOOLEAN, bad \in BadSets : AuthDone(t, storeOk, bad) /\ UNCHANGED cvars
    \/ \E c \in Conns, r \in Rooms : \E bad \in SUBSET {c} : JoinUnauth(c, r, bad) /\ UNCHANGED cvars
    \/ \E c \in Conns, r \in Rooms : RecvJoin(c, r) /\ UNCHANGED cvars
    \/ \E t \in tasks, storeOk \in BOOLEAN : \E bad \in SUBSET {t.conn} : JoinDone(t, storeOk, bad) /\ UNCHANGED cvars
    \/ \E t \in tasks : JoinThrow(t) /\ UNCHANGED cvars
    \/ \E c \in Conns : SocketClose(c) /\ UNCHANGED cvars
    \/ \E t \in tasks, bad \in BadSets : CloseDone(t, bad) /\ UNCHANGED cvars

Spec == Init /\ [][Next]_vars

\* the message-creation route running against the gateway: the POST handlers
\* interleave with each other and with the ws handlers; a frame or a close
\* arrives when no ws handler is suspended
NextPost ==
    \/ \E c \in Conns : Connect(c) /\ UNCHANGED cvars
    \/ \E c \in Conns, token \in Tokens : SessionQuiet /\ RecvAuth(c, token) /\ UNCHANGED cvars
    \/ \E t \in tasks, storeOk \in BOOLEAN, bad \in BadSets : AuthDone(t, storeOk, bad) /\ UNCHANGED cvars
    \/ \E c \in Conns, r \in Rooms : \E bad \in SUBSET {c} : SessionQuiet /\ JoinUnauth(c, r, bad) /\ UNCHANGED cvars
    \/ \E c \in Conns, r \in Rooms : SessionQuiet /\ RecvJoin(c, r) /\ UNCHANGED cvars
    \/ \E t \in tasks, storeOk \in BOOLEAN : \E bad \in SUBSET {t.conn} : JoinDone(t, storeOk, bad) /\ UNCHANGED cvars
    \/ \E c \in Conns : SessionQuiet /\ SocketClose(c) /\ UNCHANGED cvars
    \/ \E t \in tasks, bad \in BadSets : CloseDone(t, bad) /\ UNCHANGED cvars
    \/ \E u \in Users, r \in Rooms : PostBudget /\ PostRecv(u, r, 0, "hi") /\ UNCHANGED cvars
    \/ \E t \in tasks, storeOk \in BOOLEAN : PostInsert(t, storeOk) /\ UNCHANGED cvars
    \/ \E t \in tasks, bad \in BadSets : PostBroadcast(t, bad) /\ UNCHANGED cvars

SpecPost == Init /\ [][NextPost]_vars

\* ----------------------------------------------------------------- typing
\* case 'typing': one synchronous loop over wss.clients, no await, no try/catch
\* around the send; the comparison is client.roomId === ws.roomId, whatever
\* ws.roomId holds
TypingTargets(c) ==
    SelectSeq(ClientSeq, LAMBDA d : d # c /\ roomId[d] = roomId[c] /\ readyState[d] = "open")

Typing(c, isTyping, bad) ==
    /\ nframes < MaxFrames
    /\ nframes' = nframes + 1
    /\ readyState[c] \in {"open", "closing"}
    /\ last' = Event("typing", c, userId[c], roomId[c], NoMsg, isTyping,
                     UpToThrow(SendEach(TypingTargets(c),
                                        UserTypingFrame(userId[c], roomId[c], isTyping), bad)))
    /\ UNCHANGED <<readyState, userId, roomId, onlineUsers, tasks, store, tagBy, nrecv>>

\* sessions established earlier: every socket accepted; a socket is bound to a
\* user or not yet authenticated; a user's sockets that were open and bound at
\* the user's last join carry that room, a socket bound later carries none; the
\* server may have asked a socket to close after a later auth frame failed
Established ==
    {e \in [Conns -> [user : Users \cup {NoUser}, room : Rooms \cup {NoRoom},
                      state : {"open", "closing"}]] :
        \A c \in Conns :
            /\ e[c].room # NoRoom => Membership(e[c].user, e[c].room)
            /\ \A d \in Conns :
                   (e[c].user = e[d].user /\ e[c].room # NoRoom /\ e[d].room # NoRoom)
                       => e[c].room = e[d].room}

InitTyping ==
    \E e \in Established :
        /\ readyState = [c \in Conns |-> e[c].state]
        /\ userId = [c \in Conns |-> e[c].user]
        /\ roomId = [c \in Conns |-> e[c].room]
        /\ onlineUsers = {e[c].user : c \in Conns} \ {NoUser}
        /\ tasks = {}
        /\ store = <<>>
        /\ last = Event("init", 0, NoUser, NoRoom, NoMsg, FALSE, <<>>)
        /\ tagBy = [c \in Conns |->
                       IF e[c].room = NoRoom THEN 0
                       ELSE CHOOSE d \in Conns :
                                /\ e[d].user = e[c].user /\ e[d].room # NoRoom
                                /\ \A d2 \in Conns :
                                       (e[d2].user = e[c].user /\ e[d2].room # NoRoom) => d <= d2]
        /\ nframes = 0
        /\ nrecv = 0
        /\ now = 0
        /\ activeRoom = [t \in Conns |-> NoRoom]
        /\ messages = [t \in Conns |-> <<>>]
        /\ reqs = {}
        /\ wsIn = [t \in Conns |-> <<>>]
        /\ http = {}
        /\ ndup = 0
        /\ nsent = 0
        /\ ControllerIdle

\* mutant: the socket is closed on a frame the switch does not know
RecvOther_Closes(c, valid) ==
    /\ nframes < MaxFrames
    /\ nframes' = nframes + 1
    /\ readyState[c] \in {"open", "closing"}
    /\ readyState' = CloseSocket(readyState, c)
    /\ last' = Event(IF valid THEN "unknown_type" ELSE "bad_json", c, userId[c], roomId[c],
                     NoMsg, FALSE, CloseSend(c))
    /\ UNCHANGED <<userId, roomId, onlineUsers, tasks, store, tagBy, nrecv>>

\* a frame that JSON.parse rejects (the catch logs it) or whose type no case of
\* the switch names (the default branch logs it)
RecvOther(c, valid) ==
    /\ nframes < MaxFrames
    /\ nframes' = nframes + 1
    /\ readyState[c] \in {"open", "closing"}
    /\ last' = Event(IF valid THEN "unknown_type" ELSE "bad_json", c, userId[c], roomId[c],
                     NoMsg, FALSE, <<>>)
    /\ UNCHANGED <<readyState, userId, roomId, onlineUsers, tasks, store, tagBy, nrecv>>

\* typing frames arriving on established sessions while sockets go away
NextTyping ==
    \/ \E c \in Conns, isTyping \in BOOLEAN, bad \in BadSets : Typing(c, isTyping, bad) /\ UNCHANGED cvars
    \/ \E c \in Conns : SocketClose(c) /\ UNCHANGED cvars
    \/ \E t \in tasks, bad \in BadSets : CloseDone(t, bad) /\ UNCHANGED cvars
    \/ \E c \in Conns, valid \in BOOLEAN : RecvOther(c, valid) /\ UNCHANGED cvars

SpecTyping == InitTyping /\ [][NextTyping]_vars

\* ================================================================= client
\* ChatProvider of one browser tab; tab t talks over connection t
Tabs == 1..MaxConns

\* the signed-in user of every tab (useAuth)
ClientUser == "A"

Contents == {"hi", "yo"}

\* the window within which an optimistic entry and a pushed message count as
\* the same send
ToleranceMs == 5000

TickMs == ToleranceMs \div 2

Abs(x) == IF x < 0 THEN 0 - x ELSE x

\* tempId of the k-th sendMessage call: unique, and no id of the store
TempId(k) == 0 - k

\* entries of a message list; tempId = 0 stands for "no tempId"
OptimisticMessage(id, r, content) ==
    [id |-> id, tempId |-> id, room_id |-> r, user_id |-> ClientUser,
     content |-> content, created_at |-> now, status |-> "pending"]

\* {...message, status: 'delivered'} of a message of the store
Delivered(m) ==
    [id |-> m.id, tempId |-> 0, room_id |-> m.room_id, user_id |-> m.user_id,
     content |-> m.content, created_at |-> m.created_at, status |-> "delivered"]

\* Array.prototype.sort by created_at: stable
RECURSIVE InsertByTime(_, _)
InsertByTime(s, e) ==
    IF s = <<>> THEN <<e>>
    ELSE IF Head(s).created_at <= e.created_at
         THEN <<Head(s)>> \o InsertByTime(Tail(s), e)
         ELSE <<e>> \o s

RECURSIVE SortByTime(_)
SortByTime(s) ==
    IF s = <<>> THEN <<>>
    ELSE InsertByTime(SortByTime(SubSeq(s, 1, Len(s) - 1)), s[Len(s)])

\* the findIndex predicate of the new_message handler
IsOptimisticOf(e, m) ==
    /\ e.tempId # 0
    /\ e.content = m.content
    /\ e.user_id = m.user_id
    /\ Abs(e.created_at - m.created_at) < ToleranceMs

\* mutant: the last matching entry instead of the first
OptimisticIndex_Last(prev, m) ==
    IF \E i \in 1..Len(prev) : IsOptimisticOf(prev[i], m)
    THEN CHOOSE i \in 1..Len(prev) :
             /\ IsOptimisticOf(prev[i], m)
             /\ \A j \in (i + 1)..Len(prev) : ~IsOptimisticOf(prev[j], m)
    ELSE 0

\* prev.findIndex(...): the first matching entry, 0 for none
OptimisticIndex(prev, m) ==
    IF \E i \in 1..Len(prev) : IsOptimisticOf(prev[i], m)
    THEN CHOOSE i \in 1..Len(prev) :
             /\ IsOptimisticOf(prev[i], m)
             /\ \A j \in 1..(i - 1) : ~IsOptimisticOf(prev[j], m)
    ELSE 0

ExistsById(prev, m) == \E i \in 1..Len(prev) : prev[i].id = m.id

\* which branch the setMessages updater of new_message takes
ReconcileCase(prev, m) ==
    IF OptimisticIndex(prev, m) # 0 THEN "replace"
    ELSE IF ExistsById(prev, m) THEN "discard"
    ELSE "append"

\* the setMessages updater of new_message
Reconcile(prev, m) ==
    LET k == OptimisticIndex(prev, m)
    IN  IF k # 0 THEN [prev EXCEPT ![k] = Delivered(m)]
        ELSE IF ExistsById(prev, m) THEN prev
        ELSE SortByTime(Append(prev, Delivered(m)))

\* the gateway's variables but last
gvars == <<readyState, userId, roomId, onlineUsers, tasks, store, tagBy, nframes, nrecv>>

\* sendMessage up to its first await: the optimistic entry, appended and sorted
SendMessage(t, content) ==
    LET id == TempId(nsent + 1)
        r == activeRoom[t]
    IN  /\ nsent < MaxSends
        /\ r # NoRoom
        /\ nsent' = nsent + 1
        /\ messages' = [messages EXCEPT
                           ![t] = SortByTime(Append(@, OptimisticMessage(id, r, content)))]
        /\ reqs' = reqs \cup {[id |-> id, tab |-> t, room |-> r, content |-> content,
                               stage |-> "session"]}
        /\ last' = Event("send", t, ClientUser, r, id, FALSE, <<>>)
        /\ UNCHANGED <<now, activeRoom, wsIn, http, ndup>>
        /\ UNCHANGED <<gvars, kvars>>

\* prev.map(msg => msg.tempId === tempId ? {...msg, status} : msg)
SetStatus(list, tempId, status) ==
    [i \in 1..Len(list) |-> IF list[i].tempId = tempId
                            THEN [list[i] EXCEPT !.status = status]
                            ELSE list[i]]

\* sendMessage after getSession: the entry is marked 'sent' and the fetch goes out
SendFetch(q) ==
    /\ q \in reqs
    /\ q.stage = "session"
    /\ messages' = [messages EXCEPT ![q.tab] = SetStatus(@, q.id, "sent")]
    /\ reqs' = (reqs \ {q}) \cup {[q EXCEPT !.stage = "fetch"]}
    /\ last' = Event("fetch", q.tab, ClientUser, q.room, q.id, FALSE, <<>>)
    /\ UNCHANGED <<now, activeRoom, wsIn, http, ndup, nsent>>
    /\ UNCHANGED <<gvars, kvars>>

\* the request of a tab reaches the route
RouteRecv(q) ==
    /\ q \in reqs
    /\ q.stage = "fetch"
    /\ PostRecv(ClientUser, q.room, q.id, q.content)
    /\ reqs' = (reqs \ {q}) \cup {[q EXCEPT !.stage = "server"]}
    /\ UNCHANGED <<now, activeRoom, messages, wsIn, http, ndup, nsent>>
    /\ UNCHANGED kvars

\* another member of the room posts from a client of their own
OtherPost(content) ==
    /\ nsent < MaxSends
    /\ nsent' = nsent + 1
    /\ PostRecv("B", "R1", 0, content)
    /\ UNCHANGED <<now, activeRoom, messages, reqs, wsIn, http, ndup>>
    /\ UNCHANGED kvars

Response(t, ok) == [req |-> t.req, ok |-> ok, msg |-> IF ok THEN t.msg ELSE NoMsg]

\* the route's insert; a refusal is answered 403 or 500 at once
RouteInsert(t, storeOk) ==
    /\ PostInsert(t, storeOk)
    /\ http' = IF last'.op = "post_rejected" /\ t.req # 0
               THEN http \cup {Response(t, FALSE)}
               ELSE http
    /\ UNCHANGED <<now, activeRoom, messages, reqs, wsIn, ndup, nsent>>
    /\ UNCHANGED kvars

\* the frames of a broadcast that the sockets accepted, per tab in send order
Accepted(sends, c) ==
    LET mine == SelectSeq(sends, LAMBDA s : s.to = c /\ s.res = "ok")
    IN  [i \in 1..Len(mine) |-> mine[i].frame]

\* broadcastToRoom, then res.json(newMessage); every socket write succeeds
RouteBroadcast(t) ==
    /\ PostBroadcast(t, {})
    /\ wsIn' = [c \in Tabs |-> wsIn[c] \o Accepted(last'.sends, c)]
    /\ http' = IF t.req # 0 THEN http \cup {Response(t, TRUE)} ELSE http
    /\ UNCHANGED <<now, activeRoom, messages, reqs, ndup, nsent>>
    /\ UNCHANGED kvars

\* prev.map(msg => msg.tempId === tempId ? {...responseData, status: 'delivered',
\* tempId: undefined} : msg)
ReplaceByTempId(list, tempId, m) ==
    [i \in 1..Len(list) |-> IF list[i].tempId = tempId THEN Delivered(m) ELSE list[i]]

\* sendMessage after the fetch: the response is applied to the entry of the tempId
HttpResponse(h) ==
    LET q == CHOOSE x \in reqs : x.id = h.req
    IN  /\ h \in http
        /\ http' = http \ {h}
        /\ reqs' = reqs \ {q}
        /\ messages' = [messages EXCEPT
                           ![q.tab] = IF h.ok THEN ReplaceByTempId(@, h.req, store[h.msg])
                                      ELSE SetStatus(@, h.req, "error")]
        /\ last' = Event(IF h.ok THEN "response_ok" ELSE "response_error",
                         q.tab, ClientUser, q.room, h.msg, FALSE, <<>>)
        /\ UNCHANGED <<now, activeRoom, wsIn, ndup, nsent>>
        /\ UNCHANGED <<gvars, kvars>>

PushOps == {"replace", "discard", "append"}

\* mutant: a room_update is merged into the list like a new_message
OnMessage_MergeOnHint(t) ==
    LET f == Head(wsIn[t])
        m == store[f.msg]
    IN  /\ wsIn[t] # <<>>
        /\ wsIn' = [wsIn EXCEPT ![t] = Tail(@)]
        /\ IF f.type \in {"new_message", "room_update"}
           THEN /\ messages' = [messages EXCEPT ![t] = Reconcile(@, m)]
                /\ last' = Event(IF f.type = "room_update" THEN "room_update"
                                 ELSE ReconcileCase(messages[t], m),
                                 t, m.user_id, m.room_id, m.id, FALSE, <<>>)
           ELSE /\ last' = Event("ignored", t, f.userId, f.roomId, f.msg, FALSE, <<>>)
                /\ UNCHANGED messages
        /\ UNCHANGED <<now, activeRoom, reqs, http, ndup, nsent>>
        /\ UNCHANGED <<gvars, kvars>>

\* ws.onmessage on the next frame of the tab's socket: new_message for the
\* selected room is reconciled; room_update only calls refreshRooms, which
\* fetches the rooms list.  flag: the step before was the delivery of the same
\* message to the same tab.
OnMessage(t) ==
    LET f == Head(wsIn[t])
        m == store[f.msg]
        again == last.op \in PushOps /\ last.conn = t /\ last.msg = f.msg
    IN  /\ wsIn[t] # <<>>
        /\ wsIn' = [wsIn EXCEPT ![t] = Tail(@)]
        /\ IF f.type = "new_message" /\ activeRoom[t] # NoRoom /\ m.room_id = activeRoom[t]
           THEN /\ messages' = [messages EXCEPT ![t] = Reconcile(@, m)]
                /\ last' = Event(ReconcileCase(messages[t], m), t, m.user_id, m.room_id,
                                 m.id, again, <<>>)
           ELSE /\ last' = Event(IF f.type = "room_update" THEN "room_update" ELSE "ignored",
                                 t, f.userId, f.roomId, f.msg, FALSE, <<>>)
                /\ UNCHANGED messages
        /\ UNCHANGED <<now, activeRoom, reqs, http, ndup, nsent>>
        /\ UNCHANGED <<gvars, kvars>>

\* the frame at the head of a tab's socket reaches its handler a second time
Redeliver(t) ==
    /\ ndup < MaxDup
    /\ wsIn[t] # <<>>
    /\ ndup' = ndup + 1
    /\ wsIn' = [wsIn EXCEPT ![t] = <<Head(@)>> \o @]
    /\ last' = Event("redeliver", t, NoUser, NoRoom, Head(wsIn[t]).msg, FALSE, <<>>)
    /\ UNCHANGED <<now, activeRoom, messages, reqs, http, nsent>>
    /\ UNCHANGED <<gvars, kvars>>

\* time passes
Tick ==
    /\ now + TickMs <= MaxTime
    /\ now' = now + TickMs
    /\ last' = Event("tick", 0, NoUser, NoRoom, NoMsg, FALSE, <<>>)
    /\ UNCHANGED <<activeRoom, messages, reqs, wsIn, http, ndup, nsent>>
    /\ UNCHANGED <<gvars, kvars>>

\* every tab of the user signed in, its room R1 selected and joined, no message yet
InitClient ==
    /\ readyState = [c \in Conns |-> IF c \in Tabs THEN "open" ELSE "idle"]
    /\ userId = [c \in Conns |-> IF c \in Tabs THEN ClientUser ELSE NoUser]
    /\ roomId = [c \in Conns |-> IF c \in Tabs THEN "R1" ELSE NoRoom]
    /\ onlineUsers = {ClientUser}
    /\ tasks = {}
    /\ store = <<>>
    /\ last = Event("init", 0, NoUser, NoRoom, NoMsg, FALSE, <<>>)
    /\ tagBy = [c \in Conns |-> IF c \in Tabs THEN 1 ELSE 0]
    /\ nframes = MaxConns + 1
    /\ nrecv = 0
    /\ now = 0
    /\ activeRoom = [t \in Tabs |-> "R1"]
    /\ messages = [t \in Tabs |-> <<>>]
    /\ reqs = {}
    /\ wsIn = [t \in Tabs |-> <<>>]
    /\ http = {}
    /\ ndup = 0
    /\ nsent = 0
    /\ ControllerIdle

\* the tabs sending into a room they have joined
NextClient ==
    \/ \E t \in Tabs, content \in Contents : SendMessage(t, content)
    \/ \E q \in reqs : SendFetch(q)
    \/ \E q \in reqs : RouteRecv(q)
    \/ \E content \in Contents : OtherPost(content)
    \/ \E t \in tasks, storeOk \in BOOLEAN : RouteInsert(t, storeOk)
    \/ \E t \in tasks : RouteBroadcast(t)
    \/ \E h \in http : HttpResponse(h)
    \/ \E t \in Tabs : OnMessage(t)
    \/ \E t \in Tabs : Redeliver(t)
    \/ Tick

SpecClient == InitClient /\ [][NextClient]_vars

\* ------------------------------------------------------- friend requests
\* broadcastToUser: a forEach over wss.clients whose send has no try/catch
BroadcastToUser(u, f, bad) ==
    UpToThrow(SendEach(SelectSeq(ClientSeq, LAMBDA c : userId[c] = u /\ readyState[c] = "open"),
                       f, bad))

FriendResponseFrame(u, action) == Frame("friend_request_response", u, NoRoom, NoMsg, TRUE, action)

\* PUT /api/friend-requests/:requestId after its last await: the sender u of
\* the request is notified, then the route answers.  flag: the notification
\* threw, so the route's catch answered 500 instead.
FriendRequestRespond(u, action, bad) ==
    LET sends == BroadcastToUser(u, FriendResponseFrame(u, action), bad)
    IN  /\ last' = Event("friend_response", 0, u, NoRoom, NoMsg, Threw(sends), sends)
        /\ UNCHANGED gvars

\* the gateway with its ws handlers taken one at a time, and the friend-request route
NextNotify ==
    \/ \E c \in Conns : Connect(c) /\ UNCHANGED cvars
    \/ \E c \in Conns, token \in Tokens : SessionQuiet /\ RecvAuth(c, token) /\ UNCHANGED cvars
    \/ \E t \in tasks, storeOk \in BOOLEAN, bad \in BadSets : AuthDone(t, storeOk, bad) /\ UNCHANGED cvars
    \/ \E c \in Conns, r \in Rooms : SessionQuiet /\ RecvJoin(c, r) /\ UNCHANGED cvars
    \/ \E t \in tasks, storeOk \in BOOLEAN : \E bad \in SUBSET {t.conn} : JoinDone(t, storeOk, bad) /\ UNCHANGED cvars
    \/ \E c \in Conns : SessionQuiet /\ SocketClose(c) /\ UNCHANGED cvars
    \/ \E t \in tasks, bad \in BadSets : CloseDone(t, bad) /\ UNCHANGED cvars
    \/ \E u \in Users, action \in {"accepted", "rejected"}, bad \in BadSets :
           SessionQuiet /\ FriendRequestRespond(u, action, bad) /\ UNCHANGED cvars

SpecNotify == Init /\ [][NextNotify]_vars

\* ================================================= connection controller
\* The WebSocket effect and the join effect of ChatProvider in one tab.  Each
\* run of the WebSocket effect is a closure with its own isAuthenticated and
\* timer variables; it owns at most one socket at a time, because it opens a
\* new one only from the reconnect timer that the close of the previous one
\* set.  The gateway is the environment: it answers an auth frame with
\* 'authenticated' or closes the socket, and a join_room frame with
\* room_joined, success or not.  Timers fire in any order; each records the
\* delay it was set with.

\* the tab of the controller
Me == 1

ReconnectDelayMs == 3000
AuthTimeoutMs == 5000
JoinDelayMs == 50
JoinRetryMs == 1000
JoinPollMs == 200
maxAttempts == 20

AuthFrame == [type |-> "auth", room |-> NoRoom]
JoinFrame(r) == [type |-> "join_room", room |-> r]

\* a setTimeout callback that no variable holds; equal ones are kept once
Timer(kind, r, delay) == [kind |-> kind, room |-> r, delay |-> delay]

\* what the controller never writes
svars == <<now, reqs, wsIn, http, ndup, nsent>>

\* ws.close() in the browser: the closing handshake starts unless under way
ClientClose(rs, g) ==
    [rs EXCEPT ![g] = IF @ \in {"connecting", "open"} THEN "closing" ELSE @]

\* wsRef.current && wsRef.current.readyState === WebSocket.OPEN
SocketOpen == wsRef # 0 /\ wsReady[wsRef] = "open"

\* connectWebSocket in the closure of run g: the socket in wsRef is closed, the
\* closure's reconnect timer cleared, a new socket created and put in wsRef
ConnectWebSocket(g) ==
    /\ wsReady[g] = "none"
    /\ wsRef' = g
    /\ wsReady' = [IF wsRef # 0 THEN ClientClose(wsReady, wsRef) ELSE wsReady
                       EXCEPT ![g] = "connecting"]
    /\ reconnectTimeout' = [reconnectTimeout EXCEPT ![g] = 0]
    /\ isAuthenticated' = [isAuthenticated EXCEPT ![g] = FALSE]

\* the WebSocket effect runs: user is set; n bounds the number of runs
EffectRunUpTo(n) ==
    LET g == ngen + 1
    IN  /\ ~mounted
        /\ ngen < n
        /\ mounted' = TRUE
        /\ shouldReconnect' = TRUE
        /\ ngen' = g
        /\ ConnectWebSocket(g)
        /\ last' = Event("connect", g, ClientUser, NoRoom, NoMsg, FALSE, <<>>)
        /\ UNCHANGED <<authenticationTimeout, onopen, wsOut, timers, joinTimeout,
                       joinAttempts, loads, activeRoom, messages>>
        /\ UNCHANGED <<gvars, svars>>

EffectRun == EffectRunUpTo(MaxMounts)

\* the cleanup of the WebSocket effect: user changed or the provider unmounts
Cleanup ==
    /\ mounted
    /\ mounted' = FALSE
    /\ shouldReconnect' = FALSE
    /\ reconnectTimeout' = [reconnectTimeout EXCEPT ![ngen] = 0]
    /\ authenticationTimeout' = [authenticationTimeout EXCEPT ![ngen] = 0]
    /\ wsReady' = IF wsRef # 0 THEN ClientClose(wsReady, wsRef) ELSE wsReady
    /\ wsRef' = 0
    /\ last' = Event("cleanup", ngen, ClientUser, NoRoom, NoMsg, FALSE, <<>>)
    /\ UNCHANGED <<ngen, isAuthenticated, onopen, wsOut, timers, joinTimeout,
                   joinAttempts, loads, activeRoom, messages>>
    /\ UNCHANGED <<gvars, svars>>

\* the socket of run g opens: ws.onopen up to its await
SockOpen(g) ==
    /\ wsReady[g] = "connecting"
    /\ wsReady' = [wsReady EXCEPT ![g] = "open"]
    /\ onopen' = onopen \cup {g}
    /\ last' = Event("ws_open", g, ClientUser, NoRoom, NoMsg, FALSE, <<>>)
    /\ UNCHANGED <<mounted, shouldReconnect, ngen, isAuthenticated, reconnectTimeout,
                   authenticationTimeout, wsRef, wsOut, timers, joinTimeout,
                   joinAttempts, loads, activeRoom, messages>>
    /\ UNCHANGED <<gvars, svars>>

\* ws.onopen after getSession: with a session the auth frame is sent and the
\* authentication timer set; without one (or when getSession throws) nothing
\* is sent and no timer is set.  flag: an auth frame went out.
SessionDone(g, hasSession) ==
    LET sent == hasSession /\ wsReady[g] = "open"
    IN  /\ g \in onopen
        /\ onopen' = onopen \ {g}
        /\ wsOut' = IF sent THEN [wsOut EXCEPT ![g] = @ \cup {AuthFrame}] ELSE wsOut
        /\ authenticationTimeout' = IF hasSession
                                    THEN [authenticationTimeout EXCEPT ![g] = AuthTimeoutMs]
                                    ELSE authenticationTimeout
        /\ last' = Event(IF hasSession THEN "auth_sent" ELSE "no_session",
                         g, ClientUser, NoRoom, NoMsg, sent, <<>>)
        /\ UNCHANGED <<mounted, shouldReconnect, ngen, isAuthenticated, reconnectTimeout,
                       wsRef, wsReady, timers, joinTimeout, joinAttempts, loads,
                       activeRoom, messages>>
        /\ UNCHANGED <<gvars, svars>>

\* ws.onmessage case 'authenticated' on the socket of run g
Authenticated(g) ==
    /\ wsReady[g] = "open"
    /\ AuthFrame \in wsOut[g]
    /\ wsOut' = [wsOut EXCEPT ![g] = @ \ {AuthFrame}]
    /\ isAuthenticated' = [isAuthenticated EXCEPT ![g] = TRUE]
    /\ authenticationTimeout' = [authenticationTimeout EXCEPT ![g] = 0]
    /\ timers' = IF activeRoom[Me] # NoRoom
                 THEN timers \cup {Timer("join_delay", NoRoom, JoinDelayMs)}
                 ELSE timers
    /\ last' = Event("authenticated", g, ClientUser, activeRoom[Me], NoMsg, FALSE, <<>>)
    /\ UNCHANGED <<mounted, shouldReconnect, ngen, reconnectTimeout, wsRef, wsReady,
                   onopen, joinTimeout, joinAttempts, loads, activeRoom, messages>>
    /\ UNCHANGED <<gvars, svars>>

\* joinCurrentRoom with r in activeRoomRef.current: the frame goes out on the
\* socket in wsRef when that is open and a room is selected
JoinCurrentRoom(r) ==
    IF SocketOpen /\ r # NoRoom
    THEN /\ wsOut' = [wsOut EXCEPT ![wsRef] = @ \cup {JoinFrame(r)}]
         /\ last' = Event("join_sent", wsRef, ClientUser, r, NoMsg, FALSE, <<>>)
    ELSE /\ wsOut' = wsOut
         /\ last' = Event("join_skipped", wsRef, ClientUser, r, NoMsg, FALSE, <<>>)

\* the callback of the 50 ms timer set on 'authenticated'
JoinDelayFire(tm) ==
    /\ tm \in timers
    /\ tm.kind = "join_delay"
    /\ timers' = timers \ {tm}
    /\ IF SocketOpen
       THEN JoinCurrentRoom(activeRoom[Me])
       ELSE /\ wsOut' = wsOut
            /\ last' = Event("join_skipped", wsRef, ClientUser, activeRoom[Me], NoMsg,
                             FALSE, <<>>)
    /\ UNCHANGED <<mounted, shouldReconnect, ngen, isAuthenticated, reconnectTimeout,
                   authenticationTimeout, wsRef, wsReady, onopen, joinTimeout,
                   joinAttempts, loads, activeRoom, messages>>
    /\ UNCHANGED <<gvars, svars>>

\* ws.onmessage case 'room_joined' on the socket of run g: a failure for the
\* selected room sets the 1000 ms retry timer
RoomJoined(g, r, success) ==
    /\ wsReady[g] = "open"
    /\ JoinFrame(r) \in wsOut[g]
    /\ wsOut' = [wsOut EXCEPT ![g] = @ \ {JoinFrame(r)}]
    /\ timers' = IF ~success /\ r = activeRoom[Me]
                 THEN timers \cup {Timer("join_retry", r, JoinRetryMs)}
                 ELSE timers
    /\ last' = Event("room_joined", g, ClientUser, r, NoMsg, success, <<>>)
    /\ UNCHANGED <<mounted, shouldReconnect, ngen, isAuthenticated, reconnectTimeout,
                   authenticationTimeout, wsRef, wsReady, onopen, joinTimeout,
                   joinAttempts, loads, activeRoom, messages>>
    /\ UNCHANGED <<gvars, svars>>

\* the retry callback with the room of the timer sent instead of the room read
\* from activeRoomRef, and no check that it is still selected
JoinRetryFire_TimerRoom(tm) ==
    /\ tm \in timers
    /\ tm.kind = "join_retry"
    /\ timers' = timers \ {tm}
    /\ IF SocketOpen
       THEN JoinCurrentRoom(tm.room)
       ELSE /\ wsOut' = wsOut
            /\ last' = Event("join_skipped", wsRef, ClientUser, tm.room, NoMsg, FALSE, <<>>)
    /\ UNCHANGED <<mounted, shouldReconnect, ngen, isAuthenticated, reconnectTimeout,
                   authenticationTimeout, wsRef, wsReady, onopen, joinTimeout,
                   joinAttempts, loads, activeRoom, messages>>
    /\ UNCHANGED <<gvars, svars>>

\* the callback of the 1000 ms retry timer: joins again when the socket is open
\* and the room of the failed join is still the selected one
JoinRetryFire(tm) ==
    /\ tm \in timers
    /\ tm.kind = "join_retry"
    /\ timers' = timers \ {tm}
    /\ IF SocketOpen /\ activeRoom[Me] # NoRoom /\ activeRoom[Me] = tm.room
       THEN JoinCurrentRoom(activeRoom[Me])
       ELSE /\ wsOut' = wsOut
            /\ last' = Event("join_skipped", wsRef, ClientUser, tm.room, NoMsg, FALSE, <<>>)
    /\ UNCHANGED <<mounted, shouldReconnect, ngen, isAuthenticated, reconnectTimeout,
                   authenticationTimeout, wsRef, wsReady, onopen, joinTimeout,
                   joinAttempts, loads, activeRoom, messages>>
    /\ UNCHANGED <<gvars, svars>>

\* attemptJoinRoom of the join effect run for room r, with joinAttempts = n
AttemptJoinRoom(r, n) ==
    IF n >= maxAttempts
    THEN /\ joinAttempts' = n
         /\ joinTimeout' = 0
         /\ wsOut' = wsOut
         /\ last' = Event("join_given_up", wsRef, ClientUser, r, NoMsg, FALSE, <<>>)
    ELSE /\ joinAttempts' = n + 1
         /\ IF SocketOpen /\ r # NoRoom
            THEN /\ JoinCurrentRoom(r)
                 /\ joinTimeout' = 0
            ELSE /\ joinTimeout' = JoinPollMs
                 /\ wsOut' = wsOut
                 /\ last' = Event("join_wait", wsRef, ClientUser, r, NoMsg, FALSE, <<>>)

\* setActiveRoom(r) and the join effect that follows: the cleanup of the
\* previous run clears its poll timer, activeRoomRef is set, and for a room
\* loadMessages is called and the first join attempt made
SelectRoom(r) ==
    /\ r # activeRoom[Me]
    /\ activeRoom' = [activeRoom EXCEPT ![Me] = r]
    /\ IF r = NoRoom
       THEN /\ messages' = [messages EXCEPT ![Me] = <<>>]
            /\ joinTimeout' = 0
            /\ joinAttempts' = 0
            /\ last' = Event("select", wsRef, ClientUser, r, NoMsg, FALSE, <<>>)
            /\ UNCHANGED <<wsOut, loads>>
       ELSE /\ Cardinality(loads) < MaxLoads
            /\ loads' = loads \cup {r}
            /\ AttemptJoinRoom(r, 0)
            /\ UNCHANGED messages
    /\ UNCHANGED <<mounted, shouldReconnect, ngen, isAuthenticated, reconnectTimeout,
                   authenticationTimeout, wsRef, wsReady, onopen, timers>>
    /\ UNCHANGED <<gvars, svars>>

\* the callback of the 200 ms timer of the join effect
JoinPollFire ==
    /\ joinTimeout # 0
    /\ AttemptJoinRoom(activeRoom[Me], joinAttempts)
    /\ UNCHANGED <<mounted, shouldReconnect, ngen, isAuthenticated, reconnectTimeout,
                   authenticationTimeout, wsRef, wsReady, onopen, timers, loads,
                   activeRoom, messages>>
    /\ UNCHANGED <<gvars, svars>>

\* a message of the store as GET /api/rooms/:roomId/messages returns it
Loaded(m) == [Delivered(m) EXCEPT !.status = "none"]

\* loadMessages(r) after its fetch: an ok response replaces the whole list
LoadDone(r, ok) ==
    LET rows == SelectSeq(store, LAMBDA m : m.room_id = r)
    IN  /\ r \in loads
        /\ loads' = loads \ {r}
        /\ messages' = IF ok
                       THEN [messages EXCEPT
                                ![Me] = SortByTime([i \in 1..Len(rows) |-> Loaded(rows[i])])]
                       ELSE messages
        /\ last' = Event("loaded", 0, ClientUser, r, NoMsg, ok, <<>>)
        /\ UNCHANGED <<mounted, shouldReconnect, ngen, isAuthenticated, reconnectTimeout,
                       authenticationTimeout, wsRef, wsReady, onopen, wsOut, timers,
                       joinTimeout, joinAttempts, activeRoom>>
        /\ UNCHANGED <<gvars, svars>>

\* ws.onclose with the reconnect timer left out
SockClose_NoReconnect(g) ==
    /\ wsReady[g] # "none"
    /\ wsReady' = [wsReady EXCEPT ![g] = "none"]
    /\ wsOut' = [wsOut EXCEPT ![g] = {}]
    /\ onopen' = onopen \ {g}
    /\ wsRef' = 0
    /\ isAuthenticated' = [isAuthenticated EXCEPT ![g] = FALSE]
    /\ authenticationTimeout' = [authenticationTimeout EXCEPT ![g] = 0]
    /\ last' = Event("ws_close", g, ClientUser, NoRoom, NoMsg, shouldReconnect, <<>>)
    /\ UNCHANGED <<mounted, shouldReconnect, ngen, reconnectTimeout, timers, joinTimeout,
                   joinAttempts, loads, activeRoom, messages>>
    /\ UNCHANGED <<gvars, svars>>

\* the socket of run g is closed (by the gateway, the network, or the end of
\* a closing handshake): ws.onclose.  wsRef is nulled whatever it holds.  The
\* unanswered frames and a suspended onopen of the socket are dropped, and so
\* is its authentication timer, whose callback can do nothing any more
\* (wsRef.current === ws never holds again).  flag: a reconnect timer was set.
SockClose(g) ==
    /\ wsReady[g] # "none"
    /\ wsReady' = [wsReady EXCEPT ![g] = "none"]
    /\ wsOut' = [wsOut EXCEPT ![g] = {}]
    /\ onopen' = onopen \ {g}
    /\ wsRef' = 0
    /\ isAuthenticated' = [isAuthenticated EXCEPT ![g] = FALSE]
    /\ authenticationTimeout' = [authenticationTimeout EXCEPT ![g] = 0]
    /\ reconnectTimeout' = IF shouldReconnect
                           THEN [reconnectTimeout EXCEPT ![g] = ReconnectDelayMs]
                           ELSE reconnectTimeout
    /\ last' = Event("ws_close", g, ClientUser, NoRoom, NoMsg, shouldReconnect, <<>>)
    /\ UNCHANGED <<mounted, shouldReconnect, ngen, timers, joinTimeout, joinAttempts,
                   loads, activeRoom, messages>>
    /\ UNCHANGED <<gvars, svars>>

\* the callback of the reconnect timer of run g.  flag: it connected.
ReconnectFire(g) ==
    /\ reconnectTimeout[g] # 0
    /\ IF shouldReconnect /\ wsRef = 0
       THEN ConnectWebSocket(g)
       ELSE /\ reconnectTimeout' = [reconnectTimeout EXCEPT ![g] = 0]
            /\ UNCHANGED <<wsRef, wsReady, isAuthenticated>>
    /\ last' = Event("reconnect", g, ClientUser, NoRoom, NoMsg,
                     shouldReconnect /\ wsRef = 0, <<>>)
    /\ UNCHANGED <<mounted, shouldReconnect, ngen, authenticationTimeout, onopen, wsOut,
                   timers, joinTimeout, joinAttempts, loads, activeRoom, messages>>
    /\ UNCHANGED <<gvars, svars>>

\* the callback of the authentication timer of run g's socket
AuthTimeoutFire(g) ==
    /\ authenticationTimeout[g] # 0
    /\ authenticationTimeout' = [authenticationTimeout EXCEPT ![g] = 0]
    /\ wsReady' = IF ~isAuthenticated[g] /\ wsRef = g THEN ClientClose(wsReady, g)
                  ELSE wsReady
    /\ last' = Event("auth_timeout", g, ClientUser, NoRoom, NoMsg,
                     ~isAuthenticated[g] /\ wsRef = g, <<>>)
    /\ UNCHANGED <<mounted, shouldReconnect, ngen, isAuthenticated, reconnectTimeout,
                   wsRef, onopen, wsOut, timers, joinTimeout, joinAttempts, loads,
                   activeRoom, messages>>
    /\ UNCHANGED <<gvars, svars>>

NextConn ==
    \/ EffectRun
    \/ Cleanup
    \/ \E g \in Gens : SockOpen(g)
    \/ \E g \in Gens, hasSession \in BOOLEAN : SessionDone(g, hasSession)
    \/ \E g \in Gens : Authenticated(g)
    \/ \E tm \in timers : JoinDelayFire(tm)
    \/ \E g \in Gens, r \in Rooms, success \in BOOLEAN : RoomJoined(g, r, success)
    \/ \E tm \in timers : JoinRetryFire(tm)
    \/ \E r \in Rooms \cup {NoRoom} : SelectRoom(r)
    \/ JoinPollFire
    \/ \E r \in Rooms, ok \in BOOLEAN : LoadDone(r, ok)
    \/ \E g \in Gens : SockClose(g)
    \/ \E g \in Gens : ReconnectFire(g)
    \/ \E g \in Gens : AuthTimeoutFire(g)

\* the event loop runs every timer callback that stays due and every
\* continuation of getSession, and a closing handshake comes to an end
FairConn ==
    /\ \A g \in Gens : WF_vars(ReconnectFire(g))
    /\ \A g \in Gens : WF_vars(AuthTimeoutFire(g))
    /\ \A g \in Gens : WF_vars(\E hasSession \in BOOLEAN : SessionDone(g, hasSession))
    /\ \A g \in Gens : WF_vars(wsReady[g] = "closing" /\ SockClose(g))
    /\ WF_vars(\E tm \in timers : JoinDelayFire(tm))
    /\ WF_vars(\E tm \in timers : JoinRetryFire(tm))
    /\ WF_vars(JoinPollFire)

SpecConn == Init /\ [][NextConn]_vars /\ FairConn

\* ------------------------------------------------------------- remount
\* the WebSocket effect running again after its cleanup (user changed): the
\* sockets and timers of the runs side by side, no room selected
NextRemount ==
    \/ EffectRunUpTo(MaxRuns)
    \/ Cleanup
    \/ \E g \in Gens : SockOpen(g)
    \/ \E g \in Gens, hasSession \in BOOLEAN : SessionDone(g, hasSession)
    \/ \E g \in Gens : Authenticated(g)
    \/ \E g \in Gens : SockClose(g)
    \/ \E g \in Gens : ReconnectFire(g)
    \/ \E g \in Gens : AuthTimeoutFire(g)

SpecRemount == Init /\ [][NextRemount]_vars /\ FairConn

\* ------------------------------------------------------------ room view
\* one tab's message list while the user changes rooms: tab Me sends, receives
\* pushes and hints, selects rooms and loads their messages; its socket is open
\* and authenticated, so the join effect sends join_room at once

\* time passes, in steps that put two of them inside the matching window
ViewTickMs == 2000

TickView ==
    /\ now + ViewTickMs <= MaxTime
    /\ now' = now + ViewTickMs
    /\ last' = Event("tick", 0, NoUser, NoRoom, NoMsg, FALSE, <<>>)
    /\ UNCHANGED <<activeRoom, messages, reqs, wsIn, http, ndup, nsent>>
    /\ UNCHANGED <<gvars, kvars>>

\* setActiveRoom(r) and the join effect: activeRoomRef is set; for no room the
\* list is emptied, for a room it is kept and loadMessages(r) is called
ChangeRoom(r) ==
    /\ r # activeRoom[Me]
    /\ activeRoom' = [activeRoom EXCEPT ![Me] = r]
    /\ IF r = NoRoom
       THEN /\ messages' = [messages EXCEPT ![Me] = <<>>]
            /\ UNCHANGED loads
       ELSE /\ r \notin loads
            /\ Cardinality(loads) < MaxViewLoads
            /\ loads' = loads \cup {r}
            /\ UNCHANGED messages
    /\ last' = Event("select", Me, ClientUser, r, NoMsg, FALSE, <<>>)
    /\ UNCHANGED <<mounted, shouldReconnect, ngen, isAuthenticated, reconnectTimeout,
                   authenticationTimeout, wsRef, wsReady, onopen, wsOut, timers,
                   joinTimeout, joinAttempts>>
    /\ UNCHANGED <<gvars, svars>>

\* the gateway receives the join_room frame that joinCurrentRoom sent for the
\* room the tab has selected
ViewJoin ==
    /\ activeRoom[Me] # NoRoom
    /\ roomId[Me] # activeRoom[Me]
    /\ RecvJoin(Me, activeRoom[Me])

\* tab Me right after its socket was authenticated: R1 is selected and its
\* join_room has not reached the gateway yet; no other socket
InitView ==
    /\ readyState = [c \in Conns |-> IF c = Me THEN "open" ELSE "idle"]
    /\ userId = [c \in Conns |-> IF c = Me THEN ClientUser ELSE NoUser]
    /\ roomId = [c \in Conns |-> NoRoom]
    /\ onlineUsers = {ClientUser}
    /\ tasks = {}
    /\ store = <<>>
    /\ last = Event("init", 0, NoUser, NoRoom, NoMsg, FALSE, <<>>)
    /\ tagBy = [c \in Conns |-> 0]
    /\ nframes = 1
    /\ nrecv = 0
    /\ now = 0
    /\ activeRoom = [t \in Tabs |-> IF t = Me THEN "R1" ELSE NoRoom]
    /\ messages = [t \in Tabs |-> <<>>]
    /\ reqs = {}
    /\ wsIn = [t \in Tabs |-> <<>>]
    /\ http = {}
    /\ ndup = 0
    /\ nsent = 0
    /\ ControllerIdle

\* the tab sending and receiving in its room while its join is under way
NextView ==
    \/ \E content \in Contents : SendMessage(Me, content)
    \/ \E q \in reqs : SendFetch(q)
    \/ \E q \in reqs : RouteRecv(q)
    \/ \E content \in Contents : OtherPost(content)
    \/ \E t \in tasks, storeOk \in BOOLEAN : RouteInsert(t, storeOk)
    \/ \E t \in tasks : RouteBroadcast(t)
    \/ \E h \in http : HttpResponse(h)
    \/ OnMessage(Me)
    \/ TickView
    \/ ViewJoin /\ UNCHANGED cvars
    \/ \E t \in tasks : JoinDone(t, TRUE, {}) /\ UNCHANGED cvars

SpecView == InitView /\ [][NextView]_vars

\* the tab sending and receiving in its room while the HTTP responses of its
\* own calls are still on their way
NextOrder ==
    \/ \E content \in Contents : SendMessage(Me, content)
    \/ \E q \in reqs : SendFetch(q)
    \/ \E q \in reqs : RouteRecv(q)
    \/ \E content \in Contents : OtherPost(content)
    \/ \E t \in tasks, storeOk \in BOOLEAN : RouteInsert(t, storeOk)
    \/ \E t \in tasks : RouteBroadcast(t)
    \/ OnMessage(Me)
    \/ TickView
    \/ ViewJoin /\ UNCHANGED cvars
    \/ \E t \in tasks : JoinDone(t, TRUE, {}) /\ UNCHANGED cvars

SpecOrder == InitView /\ [][NextOrder]_vars

\* the tab changing rooms while a message of its own is on its way
NextRooms ==
    \/ SendMessage(Me, "hi")
    \/ \E q \in reqs : SendFetch(q)
    \/ \E q \in reqs : RouteRecv(q)
    \/ \E t \in tasks, storeOk \in BOOLEAN : RouteInsert(t, storeOk)
    \/ \E t \in tasks : RouteBroadcast(t)
    \/ \E h \in http : HttpResponse(h)
    \/ OnMessage(Me)
    \/ \E r \in Rooms \cup {NoRoom} : ChangeRoom(r)
    \/ \E r \in Rooms, ok \in BOOLEAN : LoadDone(r, ok)

SpecRooms == InitClient /\ [][NextRooms]_vars

\* ------------------------------------------------------- typing indicator
\* the quiet period after which sendTyping(true) schedules sendTyping(false)
TypingQuietMs == 3000

KeysTickMs == 1000

\* the frame of sendTyping
TypingFrame(r, isTyping) == [type |-> "typing", room |-> r, isTyping |-> isTyping]

\* typingTimeoutRef.current while its timer is pending: the callback belongs to
\* the render that set it and sees that render's activeRoom; the delay field
\* holds the time at which the timer is due
TypingTimer(r) == Timer("typing", r, now + TypingQuietMs)

TypingTimers == {tm \in timers : tm.kind = "typing"}

\* wsRef.current.send(frame) in the browser: an exception while the socket is
\* connecting, the frame on the wire while it is open, nothing otherwise
WsSend(f) ==
    IF wsReady[wsRef] = "open" THEN <<f>> ELSE <<>>

\* sendTyping(isTyping) called by the input box: nothing without a socket or a
\* room; else the frame is sent, and for isTyping the pending timer is
\* cleared and a new one set.  A call while the socket is connecting throws at
\* send and sets no timer.  flag: isTyping.
SendTyping(isTyping) ==
    /\ wsRef # 0
    /\ activeRoom[Me] # NoRoom
    /\ last' = Event(IF wsReady[wsRef] = "connecting" THEN "sendTyping_throw" ELSE "sendTyping",
                     wsRef, ClientUser, activeRoom[Me], NoMsg, isTyping,
                     WsSend(TypingFrame(activeRoom[Me], isTyping)))
    /\ timers' = IF isTyping /\ wsReady[wsRef] # "connecting"
                 THEN (timers \ TypingTimers) \cup {TypingTimer(activeRoom[Me])}
                 ELSE timers
    /\ UNCHANGED <<mounted, shouldReconnect, ngen, isAuthenticated, reconnectTimeout,
                   authenticationTimeout, wsRef, wsReady, onopen, wsOut, joinTimeout,
                   joinAttempts, loads, activeRoom, messages>>
    /\ UNCHANGED <<gvars, svars>>

\* the callback of the typing timer, when due: sendTyping(false) of the render
\* that set it, with that render's room and the socket wsRef holds now
TypingTimeoutFire(tm) ==
    /\ tm \in TypingTimers
    /\ now >= tm.delay
    /\ timers' = timers \ {tm}
    /\ last' = Event("typing_timeout", wsRef, ClientUser, tm.room, NoMsg, FALSE,
                     IF wsRef # 0 THEN WsSend(TypingFrame(tm.room, FALSE)) ELSE <<>>)
    /\ UNCHANGED <<mounted, shouldReconnect, ngen, isAuthenticated, reconnectTimeout,
                   authenticationTimeout, wsRef, wsReady, onopen, wsOut, joinTimeout,
                   joinAttempts, loads, activeRoom, messages>>
    /\ UNCHANGED <<gvars, svars>>

\* time passes while no typing timer is due; the step just taken stays the
\* last handler step
TickKeys ==
    /\ now + KeysTickMs <= MaxTime
    /\ \A tm \in TypingTimers : now < tm.delay
    /\ now' = now + KeysTickMs
    /\ UNCHANGED <<last, activeRoom, messages, reqs, wsIn, http, ndup, nsent>>
    /\ UNCHANGED <<gvars, kvars>>

\* the tab signed in, its socket open and authenticated, room R1 selected and
\* joined, nobody typing
InitKeys ==
    /\ readyState = [c \in Conns |-> IF c = Me THEN "open" ELSE "idle"]
    /\ userId = [c \in Conns |-> IF c = Me THEN ClientUser ELSE NoUser]
    /\ roomId = [c \in Conns |-> IF c = Me THEN "R1" ELSE NoRoom]
    /\ onlineUsers = {ClientUser}
    /\ tasks = {}
    /\ store = <<>>
    /\ last = Event("init", 0, NoUser, NoRoom, NoMsg, FALSE, <<>>)
    /\ tagBy = [c \in Conns |-> IF c = Me THEN Me ELSE 0]
    /\ nframes = 2
    /\ nrecv = 0
    /\ now = 0
    /\ activeRoom = [t \in Tabs |-> IF t = Me THEN "R1" ELSE NoRoom]
    /\ messages = [t \in Tabs |-> <<>>]
    /\ reqs = {}
    /\ wsIn = [t \in Tabs |-> <<>>]
    /\ http = {}
    /\ ndup = 0
    /\ nsent = 0
    /\ mounted = TRUE
    /\ shouldReconnect = TRUE
    /\ ngen = 1
    /\ isAuthenticated = [g \in Gens |-> g = 1]
    /\ reconnectTimeout = [g \in Gens |-> 0]
    /\ authenticationTimeout = [g \in Gens |-> 0]
    /\ wsRef = 1
    /\ wsReady = [g \in Gens |-> IF g = 1 THEN "open" ELSE "none"]
    /\ onopen = {}
    /\ wsOut = [g \in Gens |-> {}]
    /\ timers = {}
    /\ joinTimeout = 0
    /\ joinAttempts = 0
    /\ loads = {}

\* the user typing, pausing and changing rooms; the socket may go away and a
\* reconnect start
NextKeys ==
    \/ \E isTyping \in BOOLEAN : SendTyping(isTyping)
    \/ \E tm \in timers : TypingTimeoutFire(tm)
    \/ TickKeys
    \/ \E r \in Rooms \cup {NoRoom} : ChangeRoom(r)
    \/ \E g \in Gens : SockClose(g)
    \/ \E g \in Gens : ReconnectFire(g)

\* the timer callback runs once the timer is due
FairKeys == WF_vars(\E tm \in timers : TypingTimeoutFire(tm))

SpecKeys == InitKeys /\ [][NextKeys]_vars /\ FairKeys

\* ================================================================= claims
\* the send calls of the step just taken
SendsTo(d, type) == {i \in 1..Len(last.sends) : last.sends[i].to = d /\ last.sends[i].frame.type = type}

JoinReplies == {"join_unauth", "join_denied", "join_ok"}

\* C1: a join_room frame on a connection whose userId no auth has bound is
\* answered with exactly one room_joined{success:false}, never with success,
\* and such a connection carries no room tag.
C1_UnauthJoinRefused ==
    /\ \A c \in Conns : userId[c] = NoUser => roomId[c] = NoRoom
    /\ (last.op \in JoinReplies /\ userId[last.conn] = NoUser) =>
           /\ Len(last.sends) = 1
           /\ last.sends[1].to = last.conn
           /\ last.sends[1].frame = JoinFailFrame(last.room, "Authentication required")

C1_Witness ==
    /\ last.op = "join_unauth"
    /\ readyState[last.conn] = "open"
    /\ last.sends[1].res = "ok"
    /\ \E d \in Conns : d # last.conn /\ roomId[d] = last.room

\* C2: the join_room of a connection whose user (the one looked up) is not a
\* member of the room is answered with room_joined{success:false, 'Not
\* authorized for this room'}; the step changes no connection's room tag and
\* closes no connection.
C2_NonMemberJoinDenied ==
    [][(last'.op \in {"join_denied", "join_ok"} /\ ~Membership(last'.user, last'.room)) =>
           /\ Len(last'.sends) = 1
           /\ last'.sends[1].to = last'.conn
           /\ last'.sends[1].frame = JoinFailFrame(last'.room, "Not authorized for this room")
           /\ roomId' = roomId
           /\ readyState' = readyState]_vars

C2_Witness ==
    /\ last.op = "join_denied"
    /\ ~Membership(last.user, last.room)
    /\ userId[last.conn] = last.user
    /\ readyState[last.conn] = "open"
    /\ last.sends[1].res = "ok"
    /\ \E d \in Conns : d # last.conn /\ roomId[d] # NoRoom

\* C3: when a join_room(R) of an open connection succeeds, every open
\* connection bound to the same user carries room tag R; and broadcastToRoom(R,
\* payload) calls send with the payload on every open connection tagged R.
C3_JoinTagsAllUserConnections ==
    /\ (last.op = "join_ok" /\ readyState[last.conn] = "open") =>
           \A d \in Conns : (readyState[d] = "open" /\ userId[d] = userId[last.conn]) =>
                                roomId[d] = last.room
    /\ last.op = "post_broadcast" =>
           \A d \in Conns : (readyState[d] = "open" /\ roomId[d] = last.room) =>
               \E i \in SendsTo(d, "new_message") :
                   last.sends[i].frame = NewMessageFrame(store[last.msg])

C3_Witness ==
    /\ last.op = "post_broadcast"
    /\ \E c1, c2 \in Conns :
           /\ c1 # c2
           /\ readyState[c1] = "open" /\ readyState[c2] = "open"
           /\ userId[c1] = userId[c2]
           /\ roomId[c1] = last.room /\ roomId[c2] = last.room
           /\ tagBy[c1] = c1 /\ tagBy[c2] = c1
           /\ \E i \in SendsTo(c1, "new_message") : last.sends[i].res = "ok"
           /\ \E i \in SendsTo(c2, "new_message") : last.sends[i].res = "ok"

\* C4: in broadcastToRoom(R, payload), a write that throws on one open
\* connection tagged R stops nothing: every other open connection tagged R
\* whose own write does not throw is sent the payload, and the route
\* completes (the broadcast step is taken whatever write throws).
C4_FailingPeerIsolated ==
    last.op = "post_broadcast" =>
        \A d \in Conns :
            (readyState[d] = "open" /\ roomId[d] = last.room) =>
                /\ Cardinality(SendsTo(d, "new_message")) = 1
                /\ \A i \in SendsTo(d, "new_message") :
                       /\ last.sends[i].frame = NewMessageFrame(store[last.msg])
                       /\ last.sends[i].res \in {"ok", "throw"}

C4_Witness ==
    /\ last.op = "post_broadcast"
    /\ \E i, j \in 1..Len(last.sends) :
           /\ i < j
           /\ last.sends[i].frame.type = "new_message" /\ last.sends[i].res = "throw"
           /\ last.sends[j].frame.type = "new_message" /\ last.sends[j].res = "ok"

\* C8 (as claimed): an auth that binds a user with no other live connection
\* makes exactly one user_online broadcast; an auth on a further connection
\* while another connection of that user is live makes none.
C8_OnlineEdgeTriggered ==
    (last.op = "auth_ok" /\ ~Threw(last.sends)) =>
        IF last.flag
        THEN \A d \in Conns : SendsTo(d, "user_online") = {}
        ELSE last.prev # last.user =>
                 \A d \in Conns : readyState[d] = "open" =>
                                      Cardinality(SendsTo(d, "user_online")) = 1

\* C9 (as claimed): when one of a user's two live connections closes, no
\* user_offline is broadcast and the user stays in onlineUsers; when the last
\* one closes, exactly one user_offline is broadcast.
C9_OfflineEdgeTriggered ==
    (last.op = "close_done" /\ ~Threw(last.sends)) =>
        IF last.flag
        THEN /\ \A d \in Conns : SendsTo(d, "user_offline") = {}
             /\ last.user \in onlineUsers
        ELSE \A d \in Conns : readyState[d] = "open" =>
                                  Cardinality(SendsTo(d, "user_offline")) = 1

\* a member of the posted room with an open authenticated connection not tagged with it
Untagged(c) ==
    /\ readyState[c] = "open"
    /\ userId[c] # NoUser
    /\ Membership(userId[c], last.room)
    /\ roomId[c] # last.room

DirectDelivered == {i \in 1..Len(last.sends) :
                        last.sends[i].frame.type = "new_message" /\ last.sends[i].res = "ok"}

\* C10 (as claimed): for a message posted to R, every open authenticated
\* connection of a member of R that is not tagged R is sent a room_update for R
\* and no new_message.
C10_UntaggedMemberGetsHint ==
    last.op = "post_broadcast" =>
        \A c \in Conns : Untagged(c) =>
            /\ SendsTo(c, "room_update") # {}
            /\ SendsTo(c, "new_message") = {}

\* C10 (amended): such a connection is never sent the new_message, and it is
\* sent a room_update for R (once, carrying R) exactly when no connection
\* tagged R accepted the direct payload.
C10_UntaggedMemberGetsHintIfNoneDelivered ==
    last.op = "post_broadcast" =>
        \A c \in Conns : Untagged(c) =>
            /\ SendsTo(c, "new_message") = {}
            /\ IF DirectDelivered = {}
               THEN /\ Cardinality(SendsTo(c, "room_update")) = 1
                    /\ \A i \in SendsTo(c, "room_update") :
                           /\ last.sends[i].frame.roomId = last.room
                           /\ last.sends[i].res \in {"ok", "throw"}
               ELSE SendsTo(c, "room_update") = {}

C10_Witness ==
    /\ last.op = "post_broadcast"
    /\ \E c \in Conns :
           /\ Untagged(c)
           /\ userId[c] # last.user
           /\ \E i \in SendsTo(c, "room_update") : last.sends[i].res = "ok"

\* the entries of a list that carry the id
WithId(list, id) == {i \in 1..Len(list) : list[i].id = id}

\* C5 (as claimed): when the same canonical new_message has been handled
\* twice in a row by a tab that has the message's room selected, the tab's list
\* holds exactly one entry with the message's id.
C5_MergeIdempotent ==
    (last.op \in PushOps /\ last.flag) =>
        Cardinality(WithId(messages[last.conn], last.msg)) = 1

\* the optimistic entries of a list that the handler takes for the message
Candidates(list, m) ==
    {i \in 1..Len(list) :
        /\ list[i].tempId # 0
        /\ list[i].content = m.content
        /\ list[i].user_id = m.user_id
        /\ list[i].created_at - m.created_at < ToleranceMs
        /\ m.created_at - list[i].created_at < ToleranceMs}

\* C6 (as claimed): handling a canonical new_message replaces in place every
\* optimistic entry T of the list with the same content and author and a
\* timestamp less than 5 s apart: the entry at T's place is the canonical
\* message, delivered, and the list is as long as before.
C6_ReplacesTheOptimisticEntry ==
    [][\A t \in Tabs : (last'.op \in PushOps /\ last'.conn = t) =>
           \A i \in Candidates(messages[t], store[last'.msg]) :
               /\ messages'[t][i].id = last'.msg
               /\ messages'[t][i].status = "delivered"
               /\ messages'[t][i].tempId = 0
               /\ Len(messages'[t]) = Len(messages[t])]_vars

\* C6 (amended): of the optimistic entries with the same content and author
\* and a timestamp less than 5 s apart, the first one in list order is replaced
\* in place by the canonical message, delivered and without tempId; every
\* other entry is left as it was and the list is as long as before.
C6_ReplacesTheFirstOptimisticEntry ==
    [][\A t \in Tabs :
           (last'.op \in PushOps /\ last'.conn = t
                /\ Candidates(messages[t], store[last'.msg]) # {}) =>
               LET m == store[last'.msg]
                   k == CHOOSE i \in Candidates(messages[t], m) :
                            \A j \in Candidates(messages[t], m) : i <= j
               IN  /\ Len(messages'[t]) = Len(messages[t])
                   /\ messages'[t][k].id = m.id
                   /\ messages'[t][k].content = m.content
                   /\ messages'[t][k].created_at = m.created_at
                   /\ messages'[t][k].status = "delivered"
                   /\ messages'[t][k].tempId = 0
                   /\ \A j \in 1..Len(messages[t]) :
                          j # k => messages'[t][j] = messages[t][j]]_vars

C6_Witness ==
    /\ last.op = "replace"
    /\ \E i, j \in 1..Len(messages[last.conn]) :
           /\ i < j
           /\ messages[last.conn][i].id = last.msg
           /\ messages[last.conn][i].status = "delivered"
           /\ messages[last.conn][i].tempId = 0
           /\ j \in Candidates(messages[last.conn], store[last.msg])

\* every send has returned, every request is answered, every frame is handled
Quiescent ==
    /\ reqs = {}
    /\ tasks = {}
    /\ http = {}
    /\ \A t \in Tabs : wsIn[t] = <<>>

\* C7 (as claimed): the user has sent one message from one of the tabs, all of
\* them tagged with the room and having it selected, no other message was
\* posted and no frame came twice; once the response and the pushes are
\* handled, in whatever order, the list of every tab is that one message,
\* delivered.
C7_TwoTabsOneDeliveredEntry ==
    (Quiescent /\ nsent = 1 /\ ndup = 0 /\ Len(store) = 1 /\ store[1].user_id = ClientUser) =>
        \A t \in Tabs :
            /\ Len(messages[t]) = 1
            /\ messages[t][1].id = store[1].id
            /\ messages[t][1].status = "delivered"

\* the frames of the step just taken that carry a message
MessageSends == {i \in 1..Len(last.sends) :
                    last.sends[i].frame.type \in {"new_message", "room_update"}}

\* C11: a new_message or room_update frame is sent only by the continuation
\* that runs after the store returned the inserted row, and it carries that
\* row; the step that gets an error from the store sends nothing and leaves no
\* continuation behind that could.
C11_BroadcastAfterPersistence ==
    /\ \A i \in MessageSends :
           /\ last.op = "post_broadcast"
           /\ last.msg \in 1..Len(store)
           /\ last.sends[i].frame.msg = last.msg
           /\ last.sends[i].frame.roomId = store[last.msg].room_id
    /\ last.op = "post_rejected" => last.sends = <<>>
    /\ \A t \in tasks : t.kind = "stored" =>
           /\ t.msg \in 1..Len(store)
           /\ store[t.msg].room_id = t.room
           /\ store[t.msg].user_id = t.user

C11_Witness ==
    /\ last.op = "post_rejected"
    /\ Membership(last.user, last.room)
    /\ store = <<>>
    /\ \E c \in Conns : readyState[c] = "open" /\ roomId[c] = last.room
    /\ \E c \in Conns : readyState[c] = "open" /\ userId[c] # NoUser /\ roomId[c] # last.room

\* C12: the auth continuation whose token does not verify (an error result, no
\* user, or the lookup throwing) binds no userId, adds nobody to onlineUsers,
\* sends neither an authenticated nor a user_online frame, and calls
\* ws.close(1008, 'Authentication failed'): a socket that was open gets that
\* close frame and is not open afterwards.
C12_AuthFailureCloses ==
    [][last'.op = "auth_fail" =>
           /\ userId' = userId
           /\ onlineUsers' = onlineUsers
           /\ \A i \in 1..Len(last'.sends) :
                  /\ last'.sends[i].to = last'.conn
                  /\ last'.sends[i].frame = CloseFrame(1008, "Authentication failed")
           /\ readyState'[last'.conn] # "open"
           /\ readyState[last'.conn] = "open" =>
                  /\ Len(last'.sends) = 1
                  /\ readyState'[last'.conn] = "closing"
           /\ \A d \in Conns : d # last'.conn => readyState'[d] = readyState[d]]_vars

C12_Witness ==
    /\ last.op = "auth_fail"
    /\ readyState[last.conn] = "closing"
    /\ userId[last.conn] = NoUser
    /\ Len(last.sends) = 1
    /\ last.sends[1].frame.msg = AuthFailedCode
    /\ \E d \in Conns : d # last.conn /\ readyState[d] = "open" /\ userId[d] # NoUser

\* C13 (as claimed): every new_message or room_update frame sent for a message
\* posted to R goes to a connection whose bound user is a member of R.
C13_HintOnlyToMembers ==
    last.op = "post_broadcast" =>
        \A i \in MessageSends : Membership(userId[last.sends[i].to], last.room)

\* C14 (as claimed): broadcastToUser(U, payload) calls send with the payload
\* on every open connection bound to U, whatever its room tag and whatever
\* write throws, and no error reaches the calling route.
C14_UserFanoutIsolatesFailure ==
    last.op = "friend_response" =>
        /\ \A d \in Conns :
               (readyState[d] = "open" /\ userId[d] = last.user) =>
                   Cardinality(SendsTo(d, "friend_request_response")) = 1
        /\ ~last.flag

\* C15 (as claimed): of two new_message frames for one room written to a
\* connection, the one written first belongs to the request the route received
\* first.
C15_PushOrderIsReceiveOrder ==
    \A t \in Tabs : \A i, j \in 1..Len(wsIn[t]) :
        (/\ i < j
         /\ wsIn[t][i].type = "new_message"
         /\ wsIn[t][j].type = "new_message"
         /\ wsIn[t][i].roomId = wsIn[t][j].roomId) =>
            store[wsIn[t][i].msg].seq <= store[wsIn[t][j].msg].seq


\* a list holds the entry of temporary id k with status 'error'
HasErrorEntry(list, k) ==
    \E i \in 1..Len(list) : list[i].tempId = k /\ list[i].status = "error"

\* C20: once the persistence call of a send fails, the sender's list holds an
\* entry with that send's temporary id and status 'error', and every entry with
\* status 'error' is still in the list, unchanged, after every later step
\* (the room of a tab stays selected throughout this specification).
C20_FailedEntryStays ==
    [][/\ \A h \in http : (h \notin http' /\ ~h.ok) =>
              \E q \in reqs : q.id = h.req /\ HasErrorEntry(messages'[q.tab], h.req)
       /\ \A t \in Tabs : \A i \in 1..Len(messages[t]) :
              messages[t][i].status = "error" =>
                  HasErrorEntry(messages'[t], messages[t][i].tempId)]_vars


\* C16: whenever a socket of the controller closes while the controller is
\* active (shouldReconnectRef set), the closing closure holds a reconnect timer
\* of 3000 ms, and a new socket is created (or the controller is cleaned up);
\* nothing counts the attempts, so this holds after every close.
C16_ReconnectAfterEveryClose ==
    /\ [](last.op = "ws_close" /\ last.flag =>
              reconnectTimeout[last.conn] = ReconnectDelayMs /\ wsRef = 0)
    /\ (last.op = "ws_close" /\ last.flag) ~> (wsRef # 0 \/ ~shouldReconnect)

\* a socket that had been opened and authenticated closes while the controller
\* is active
C16_Witness ==
    /\ last.op = "ws_close"
    /\ last.flag
    /\ mounted
    /\ wsRef = 0
    /\ timers # {}
    /\ reconnectTimeout[last.conn] = ReconnectDelayMs


\* the socket of run g has opened and its ws.onopen has not finished
Opened(g) == g \in onopen

\* an auth frame has just gone out on the socket of run g
AuthSent(g) == last.op = "auth_sent" /\ last.conn = g /\ last.flag

\* the acknowledgment has just arrived on the socket in wsRef, a room selected
Acked == last.op = "authenticated" /\ wsRef = last.conn /\ activeRoom[Me] # NoRoom

\* C17, second half: once 'authenticated' arrives while a room is selected, a
\* join_room frame for the selected room is sent, unless the socket closes or
\* the room is deselected first.
C17_JoinAfterAck ==
    Acked ~> \/ last.op = "join_sent" /\ last.room = activeRoom[Me]
             \/ ~SocketOpen
             \/ activeRoom[Me] = NoRoom

\* C17: after every opening of the socket the client sends an auth frame
\* (unless the socket closes first), and once 'authenticated' arrives while a
\* room is selected and the socket stays open it sends join_room for the
\* selected room.
C17_AuthThenJoinAfterEveryOpen ==
    /\ \A g \in Gens : Opened(g) ~> (AuthSent(g) \/ wsReady[g] # "open")
    /\ C17_JoinAfterAck


\* a step that sends a join_room frame
JoinSentStep == last'.op = "join_sent"

\* a step that changes the selected room
SelectStep == activeRoom'[Me] # activeRoom[Me]

\* a step that closes a socket
CloseStep == last'.op = "ws_close"

\* C18: for one room selection the client sends finitely many join_room
\* frames: unless the selection changes or a socket closes again and again,
\* from some point on no join_room frame is sent, even when the gateway
\* answers every one of them with room_joined{success: false}.
C18_JoinRetryBounded ==
    \/ []<><<SelectStep>>_vars
    \/ []<><<CloseStep>>_vars
    \/ <>[][~JoinSentStep]_vars


\* C19: every join_room frame the client sends names the room that is selected
\* when it is sent and goes out on the open socket in wsRef; in particular the
\* retry timer of a room that has been deselected sends nothing.
C19_JoinNamesSelectedRoom ==
    [][JoinSentStep =>
           /\ last'.room = activeRoom'[Me]
           /\ last'.room # NoRoom
           /\ wsRef # 0
           /\ last'.conn = wsRef
           /\ JoinFrame(last'.room) \in wsOut'[wsRef]
           /\ \A g \in Gens : \A r \in Rooms :
                  JoinFrame(r) \in wsOut'[g] \ wsOut[g] => r = activeRoom'[Me]]_vars

\* the retry timer of a room fires after another room has been selected
C19_Witness ==
    /\ last.op = "join_skipped"
    /\ last.room \in Rooms
    /\ activeRoom[Me] \in Rooms
    /\ last.room # activeRoom[Me]
    /\ SocketOpen


\* the steps that end the handling of a join_room frame
JoinEnds == JoinReplies \cup {"join_error"}

\* C21: the handling of every join_room frame ends with exactly one
\* room_joined send call, success or explicit failure, on the requesting
\* connection, also when the membership lookup fails or throws.
C21_EveryJoinAnswered ==
    last.op \in JoinEnds =>
        /\ Len(last.sends) = 1
        /\ last.sends[1].to = last.conn
        /\ last.sends[1].frame.type = "room_joined"
        /\ last.sends[1].frame.roomId = last.room


\* the frame handlers of connection c that are suspended at an await
Suspended(c) == {t \in tasks : t.conn = c /\ t.kind \in {"auth", "join"}}

\* C22: on one connection frames are handled one at a time: no frame is taken
\* up while the handler of an earlier frame of that connection is suspended
\* at its store call, so a join_room frame that follows an auth frame is never
\* judged while that auth is still in flight.
C22_FramesHandledOneAtATime ==
    /\ \A c \in Conns : Cardinality(Suspended(c)) <= 1
    /\ last.op = "join_unauth" => Suspended(last.conn) = {}


\* C23: the tag of a connection is the room of the most recently received
\* successful join of that connection, whatever order the lookups complete in:
\* no successful join tags its connection after a join_room frame for another
\* room, received later on the same connection, has tagged it.
C23_TagIsLatestReceivedJoin ==
    (last.op = "join_ok" /\ readyState[last.conn] = "open") => ~last.flag


\* C24: a connection's user identity is bound once: after a successful auth has
\* set it, no later step changes it for as long as the connection exists.
C24_UserBoundOnce ==
    [][\A c \in Conns : userId[c] # NoUser => userId'[c] = userId[c]]_vars

\* C25: whenever no auth or close handler is suspended at an await, the presence
\* set is exactly the set of users bound to at least one open connection.  Users
\* with a connection that the server has asked to close and whose close event
\* is still to come are left out: their close handler has yet to run.
BoundTo(u, rs) == {c \in Conns : readyState[c] = rs /\ userId[c] = u}

C25_PresenceIsProjection ==
    (\A t \in tasks : t.kind \notin {"auth", "close"}) =>
        \A u \in Users :
            BoundTo(u, "closing") = {} => (u \in onlineUsers <=> BoundTo(u, "open") # {})

\* C28: a connection is tagged with a room only after a membership check of the
\* user bound to it: every successful join tags for the user whose membership
\* was looked up, so a tagged open connection is bound to a member of its room.
C28_TagOnlyForCheckedUser ==
    /\ last.op = "join_ok" => last.user = userId[last.conn]
    /\ \A c \in Conns :
           (readyState[c] = "open" /\ roomId[c] # NoRoom /\ userId[c] # NoUser)
               => Membership(userId[c], roomId[c])


\* C26: a typing frame from a connection tagged R makes the server call send
\* with a user_typing event on every other open connection tagged R, on no
\* connection with another tag (or none), never on the sender, and changes no
\* connection's userId or room tag.
C26_TypingReachesTheRoom ==
    [][(last'.op = "typing" /\ roomId[last'.conn] # NoRoom) =>
           /\ \A d \in Conns :
                  Cardinality({i \in 1..Len(last'.sends) : last'.sends[i].to = d})
                      = IF d # last'.conn /\ readyState[d] = "open" /\ roomId[d] = roomId[last'.conn]
                        THEN 1 ELSE 0
           /\ \A i \in 1..Len(last'.sends) :
                  last'.sends[i].frame.type = "user_typing"
           /\ userId' = userId
           /\ roomId' = roomId]_vars

\* C27: a typing frame from a connection without a room tag makes the server
\* send no user_typing event to anyone.
C27_UntaggedTypingIsSilent ==
    (last.op = "typing" /\ last.room = NoRoom) => last.sends = <<>>


\* the persistence calls that have gone out and are not yet answered
InFlight == {q \in reqs : q.stage \in {"fetch", "server"} /\ \A h \in http : h.req # q.id}

\* C29: an optimistic entry is marked sent only once the route has accepted its
\* persistence call: while the call is in flight the entry, as long as it is
\* still the optimistic one, has status pending.
C29_SentOnlyAfterAcceptance ==
    \A q \in InFlight : \A i \in 1..Len(messages[q.tab]) :
        messages[q.tab][i].tempId = q.id => messages[q.tab][i].status = "pending"

\* C30: after a single send, once the tab has handled the HTTP response and the
\* frames pushed to it, whichever it handled last, its list is exactly the
\* stored message: one entry with the canonical id, delivered, no tempId.
C30_SameListEitherOrder ==
    (/\ nsent = 1 /\ Len(store) = 1 /\ store[1].user_id = ClientUser
     /\ last.op \in PushOps \cup {"response_ok"}
     /\ reqs = {} /\ http = {} /\ tasks = {}
     /\ wsIn[last.conn] = <<>>)
        => messages[last.conn] = <<Delivered(store[1])>>


\* C31: within one broadcastToRoom call the room_update fallback is sent only
\* if no write of the direct payload succeeded, so no connection is handed both
\* the new_message and a room_update of the same message.
C31_FallbackOnlyIfNoneDelivered ==
    last.op = "post_broadcast" =>
        /\ (\E i \in 1..Len(last.sends) : last.sends[i].frame.type = "room_update")
               => \A j \in 1..Len(last.sends) :
                      last.sends[j].frame.type = "new_message" => last.sends[j].res # "ok"
        /\ \A c \in Conns :
               ~ /\ \E i \in SendsTo(c, "new_message") : last.sends[i].res = "ok"
                 /\ SendsTo(c, "room_update") # {}

\* the fallback taken after a direct loop that wrote to a connection and failed
C31_Witness ==
    /\ last.op = "post_broadcast"
    /\ \E c, d \in Conns :
           /\ \E i \in SendsTo(c, "new_message") : last.sends[i].res = "throw"
           /\ \E i \in SendsTo(d, "room_update") : last.sends[i].res = "ok"


\* C32: handling a room_update frame leaves the tab's message list as it was:
\* nothing is merged, appended or replaced (and the selection and the pending
\* sends are untouched); the handler only refreshes the rooms list.
C32_RoomUpdateLeavesList ==
    [][last'.op = "room_update" =>
           /\ messages' = messages
           /\ activeRoom' = activeRoom
           /\ reqs' = reqs]_vars

\* a room_update for the tab's own message, handled while its optimistic entry
\* is in the list
C32_Witness ==
    /\ last.op = "room_update"
    /\ last.msg \in 1..Len(store)
    /\ store[last.msg].room_id = activeRoom[last.conn]
    /\ \E i \in 1..Len(messages[last.conn]) :
           /\ messages[last.conn][i].tempId # 0
           /\ messages[last.conn][i].content = store[last.msg].content
           /\ messages[last.conn][i].user_id = store[last.msg].user_id


\* C34: whenever no loadMessages call is in flight, every entry of the tab's
\* list belongs to the selected room; in particular the response of a load
\* for a room selected earlier never becomes the list of the room selected now.
C34_ListIsOfSelectedRoom ==
    /\ loads = {} =>
           \A i \in 1..Len(messages[Me]) : messages[Me][i].room_id = activeRoom[Me]
    /\ (last.op = "loaded" /\ last.flag /\ last.room # activeRoom[Me]) =>
           \A i \in 1..Len(messages[Me]) : messages[Me][i].room_id # last.room


\* the sockets of the tab that are connecting or open
LiveSockets == {g \in Gens : wsReady[g] \in {"connecting", "open"}}

\* C33: the tab has at most one gateway socket that is connecting or open, and
\* the close event of a socket leaves the reference to another socket alone.
C33_OneLiveSocket ==
    /\ Cardinality(LiveSockets) <= 1
    /\ \A g \in LiveSockets : last.op = "ws_close" /\ last.conn # g => wsRef = g


\* C38: when the authentication timer of a socket fires and no authenticated
\* acknowledgment has arrived on that socket, the client closes the socket; a
\* timer never closes a socket that was acknowledged.
C38_AuthTimeoutCloses ==
    /\ (last.op = "auth_timeout" /\ ~isAuthenticated[last.conn]
            /\ wsReady[last.conn] # "none") => wsReady[last.conn] = "closing"
    /\ \A g \in Gens : (isAuthenticated[g] /\ wsReady[g] = "closing") =>
           last.op # "auth_timeout"

\* C35: a frame that is not valid JSON, or whose type the server does not know,
\* is logged and nothing more: the state of every connection (its socket, its
\* user, its room), presence, the store and the pending handlers stay as they
\* were, no frame is sent, and the sender's socket is not closed.
C35_OtherFrameIgnored ==
    [][last'.op \in {"bad_json", "unknown_type"} =>
          /\ readyState' = readyState
          /\ userId' = userId
          /\ roomId' = roomId
          /\ onlineUsers' = onlineUsers
          /\ store' = store
          /\ tasks' = tasks
          /\ last'.sends = <<>>]_vars

\* an unknown frame was handled on an open socket that is bound and tagged
C35_Witness ==
    /\ last.op \in {"bad_json", "unknown_type"}
    /\ readyState[last.conn] = "open"
    /\ userId[last.conn] # NoUser
    /\ roomId[last.conn] # NoRoom

\* C36: while the typing indicator is on, a further sendTyping(true) sends no
\* typing(true) frame.  Stated for the case in which the latest step of the tab
\* (ticks of the clock aside) was a sendTyping(true) that sent its frame: a
\* sendTyping(true) that follows it sends nothing.
C36_RepeatsSuppressed ==
    [][(/\ last.op = "sendTyping" /\ last.flag /\ last.sends # <<>>
        /\ last'.op = "sendTyping" /\ last'.flag
        /\ now' = now)
       => last'.sends = <<>>]_vars

\* C37: once the quiet period after the last sendTyping(true) has elapsed with
\* the socket open, the timer's callback sends exactly one typing(false), and
\* no second timer is pending; and after an explicit sendTyping(false) no
\* timer is left that would send another typing(false) later.
C37_OneTypingOff ==
    /\ [](Cardinality(TypingTimers) <= 1)
    /\ [][(last'.op = "typing_timeout" /\ timers' # timers /\ SocketOpen)
          => last'.sends = <<TypingFrame(last'.room, FALSE)>>]_vars
    /\ []((last.op = "sendTyping" /\ ~last.flag) => TypingTimers = {})

\* C39: the message list of the tab is ordered by created_at, earliest first,
\* whatever optimistic inserts, new_message reconciliations and loads made it.
C39_ListSortedByTime ==
    \A i, j \in 1..Len(messages[Me]) :
        i < j => messages[Me][i].created_at <= messages[Me][j].created_at
====
